---------------------------- MODULE Spec2Model ----------------------------
(***************************************************************************)
(* Model of the registration wizard, the user table and the social-graph   *)
(* actions of src/__init__.py, with the validators of src/validators.py.   *)
(*                                                                         *)
(* Strings are sequences of one-character strings, so that strip(),        *)
(* lower(), len() and the regular expressions act on characters.  A form   *)
(* (request.form) and the wizard draft (session["register"]["data"]) are   *)
(* functions whose DOMAIN is the set of keys present.                      *)
(***************************************************************************)
EXTENDS Integers, Sequences, FiniteSets, TLC

VARIABLES
    users,          \* rows of table user
    sessions,       \* per browser session: user_id and the wizard state
    follows,        \* rows of table follow
    messages,       \* rows of table message
    notifications,  \* rows of table notification
    tokens,         \* rows of table password_reset_token
    createdCount,   \* history: number of user rows ever inserted
    now,            \* datetime.utcnow(), in minutes
    date_today,     \* date.today()
    issued,         \* number of values secrets.token_urlsafe has returned
    inflight,       \* follow requests between their existence check and insert
    last            \* observation: the last request and its outcome

vars == <<users, sessions, follows, messages, notifications, tokens,
          createdCount, now, date_today, issued, inflight, last>>

---------------------------------------------------------------------------
(* Characters and Python string methods *)

UpperChars == <<"A","B","C","D","E","F","G","H","I","J","K","L","M",
                "N","O","P","Q","R","S","T","U","V","W","X","Y","Z">>

LowerChars == <<"a","b","c","d","e","f","g","h","i","j","k","l","m",
                "n","o","p","q","r","s","t","u","v","w","x","y","z">>

DigitChars == <<"0","1","2","3","4","5","6","7","8","9">>

Range(f) == {f[i] : i \in DOMAIN f}

UpperSet == Range(UpperChars)

LowerSet == Range(LowerChars)

DigitSet == Range(DigitChars)

IsUpper(c) == c \in UpperSet

IsLower(c) == c \in LowerSet

IsDigit(c) == c \in DigitSet

\* \s of the regular expressions and the characters str.strip() removes
IsSpace(c) == c \in {" ", "\t", "\n", "\r", "\f"}

LowerChar(c) ==
    IF IsUpper(c)
    THEN LowerChars[CHOOSE i \in 1..Len(UpperChars) : UpperChars[i] = c]
    ELSE c

PyLower(s) == [i \in 1..Len(s) |-> LowerChar(s[i])]

RECURSIVE LStrip(_)
LStrip(s) ==
    IF s = <<>> THEN s
    ELSE IF IsSpace(Head(s)) THEN LStrip(Tail(s)) ELSE s

RECURSIVE RStrip(_)
RStrip(s) ==
    IF s = <<>> THEN s
    ELSE IF IsSpace(s[Len(s)]) THEN RStrip(SubSeq(s, 1, Len(s) - 1)) ELSE s

PyStrip(s) == RStrip(LStrip(s))

EndsWith(s, suffix) ==
    /\ Len(s) >= Len(suffix)
    /\ SubSeq(s, Len(s) - Len(suffix) + 1, Len(s)) = suffix

\* str.isdigit(): non-empty and all digits
IsDigitStr(s) == s # <<>> /\ \A i \in 1..Len(s) : IsDigit(s[i])

DigitVal(c) == (CHOOSE i \in 1..10 : DigitChars[i] = c) - 1

RECURSIVE DigitsToInt(_)
DigitsToInt(s) ==
    IF s = <<>> THEN 0
    ELSE 10 * DigitsToInt(SubSeq(s, 1, Len(s) - 1)) + DigitVal(s[Len(s)])

\* int(text): surrounding whitespace and one sign are accepted; anything else
\* raises ValueError (ok = FALSE)
PyInt(text) ==
    LET t == PyStrip(text)
        signed == t # <<>> /\ Head(t) \in {"+", "-"}
        body == IF signed THEN Tail(t) ELSE t
    IN  IF IsDigitStr(body)
        THEN [ok |-> TRUE,
              val |-> IF signed /\ Head(t) = "-"
                      THEN 0 - DigitsToInt(body) ELSE DigitsToInt(body)]
        ELSE [ok |-> FALSE, val |-> 0]

\* data.get(key) or ""
GetOrEmpty(data, key) == IF key \in DOMAIN data THEN data[key] ELSE <<>>

\* bool(data.get(key)): present and not empty
Truthy(data, key) == key \in DOMAIN data /\ data[key] # <<>>

\* a dict with the keys of `upd` set to its values
Merge(data, upd) ==
    [k \in DOMAIN data \cup DOMAIN upd |->
        IF k \in DOMAIN upd THEN upd[k] ELSE data[k]]

EmptyDict == [k \in {} |-> <<>>]

---------------------------------------------------------------------------
(* src/validators.py *)

UsernameMinLen == 3

UsernameMaxLen == 20

IsWordChar(c) == IsUpper(c) \/ IsLower(c) \/ IsDigit(c) \/ c = "_"

\* a pattern that bounds the length alone
USERNAME_RE_any_char(s) == Len(s) >= UsernameMinLen /\ Len(s) <= UsernameMaxLen

\* USERNAME_RE = ^[A-Za-z0-9_]{3,20}$ ; $ also matches before one final "\n"
USERNAME_RE(s) ==
    LET core == IF s # <<>> /\ s[Len(s)] = "\n"
                THEN {s, SubSeq(s, 1, Len(s) - 1)} ELSE {s}
    IN  \E t \in core :
            /\ Len(t) >= UsernameMinLen
            /\ Len(t) <= UsernameMaxLen
            /\ \A i \in 1..Len(t) : IsWordChar(t[i])

IsEmailChar(c) == c # "@" /\ ~IsSpace(c)

\* EMAIL_RE = ^[^@\s]+@[^@\s]+\.[^@\s]+$
EMAIL_RE(s) ==
    \E at \in 2..Len(s) : \E dot \in (at + 2)..(Len(s) - 1) :
        /\ s[at] = "@"
        /\ s[dot] = "."
        /\ \A i \in 1..Len(s) : i # at => IsEmailChar(s[i])

DisplayNameMinLen == 2

DisplayNameMaxLen == 40

PasswordMinLen == 8

MinAge == 13

\* the password rules of validate_register_step, step 3
PasswordOk(password) ==
    /\ Len(password) >= PasswordMinLen
    /\ \E i \in 1..Len(password) : IsUpper(password[i])
    /\ \E i \in 1..Len(password) : IsLower(password[i])
    /\ \E i \in 1..Len(password) : IsDigit(password[i])

IsLeap(y) == (y % 4 = 0 /\ y % 100 # 0) \/ y % 400 = 0

DaysInMonth(y, m) ==
    IF m = 2 THEN (IF IsLeap(y) THEN 29 ELSE 28)
    ELSE IF m \in {4, 6, 9, 11} THEN 30 ELSE 31

\* positions of "-" in s
Dashes(s) == {i \in 1..Len(s) : s[i] = "-"}

\* datetime.strptime(text, "%Y-%m-%d").date(): four digits, one or two digits,
\* one or two digits, a valid calendar date; the whole text must match
Strptime(text) ==
    IF Cardinality(Dashes(text)) # 2 THEN [ok |-> FALSE, y |-> 0, m |-> 0, d |-> 0]
    ELSE
    LET d1 == CHOOSE i \in Dashes(text) : \A j \in Dashes(text) : i <= j
        d2 == CHOOSE i \in Dashes(text) : \A j \in Dashes(text) : i >= j
        ys == SubSeq(text, 1, d1 - 1)
        ms == SubSeq(text, d1 + 1, d2 - 1)
        ds == SubSeq(text, d2 + 1, Len(text))
        shape == /\ Len(ys) = 4 /\ IsDigitStr(ys)
                 /\ Len(ms) \in {1, 2} /\ IsDigitStr(ms)
                 /\ Len(ds) \in {1, 2} /\ IsDigitStr(ds)
        y == DigitsToInt(ys)
        m == DigitsToInt(ms)
        d == DigitsToInt(ds)
    IN  IF shape /\ y >= 1 /\ m \in 1..12 /\ d >= 1 /\ d <= DaysInMonth(y, m)
        THEN [ok |-> TRUE, y |-> y, m |-> m, d |-> d]
        ELSE [ok |-> FALSE, y |-> 0, m |-> 0, d |-> 0]

\* the age as the difference of the years alone
_calculate_age_by_year(dob, today) == today.y - dob.y

\* date.today() of the run
Today == [y |-> 2026, m |-> 11, d |-> 2]

_calculate_age(dob, today) ==
    LET years == today.y - dob.y
    IN  IF today.m < dob.m \/ (today.m = dob.m /\ today.d < dob.d)
        THEN years - 1 ELSE years

AllowedExtensions ==
    { <<".","p","n","g">>, <<".","j","p","g">>, <<".","j","p","e","g">>,
      <<".","w","e","b","p">> }

\* files.get("profile_picture") is truthy when a file with a name was sent
HasFile(form) == Truthy(form, "profile_picture")

PictureNameOk(name) == \E e \in AllowedExtensions : EndsWith(PyLower(name), e)

\* a validation whose step 2 takes any email that was sent
validate_register_step_any_email(step, form) ==
    IF step = 1 THEN
        LET username == PyStrip(GetOrEmpty(form, "username"))
            display_name == PyStrip(GetOrEmpty(form, "display_name"))
        IN  (IF ~USERNAME_RE(username) THEN {"username"} ELSE {})
            \cup (IF ~(DisplayNameMinLen <= Len(display_name)
                       /\ Len(display_name) <= DisplayNameMaxLen)
                  THEN {"display_name"} ELSE {})
    ELSE IF step = 2 THEN
        IF "email" \notin DOMAIN form THEN {"email"} ELSE {}
    ELSE IF step = 3 THEN
        IF ~PasswordOk(GetOrEmpty(form, "password")) THEN {"password"} ELSE {}
    ELSE IF step = 4 THEN
        LET age_raw == PyStrip(GetOrEmpty(form, "age"))
            dob_raw == PyStrip(GetOrEmpty(form, "date_of_birth"))
            dob == Strptime(dob_raw)
        IN  (IF ~IsDigitStr(age_raw) THEN {"age"}
             ELSE IF DigitsToInt(age_raw) < MinAge THEN {"age"} ELSE {})
            \cup (IF dob_raw = <<>> THEN {"date_of_birth"}
                  ELSE IF ~dob.ok THEN {"date_of_birth"}
                  ELSE IF _calculate_age(dob, date_today) < MinAge
                       THEN {"date_of_birth"} ELSE {})
    ELSE IF step = 5 THEN
        IF HasFile(form) /\ ~PictureNameOk(form["profile_picture"])
        THEN {"profile_picture"} ELSE {}
    ELSE {}

\* validate_register_step(step, data, files): the set of fields with an error
validate_register_step(step, form) ==
    IF step = 1 THEN
        LET username == PyStrip(GetOrEmpty(form, "username"))
            display_name == PyStrip(GetOrEmpty(form, "display_name"))
        IN  (IF ~USERNAME_RE(username) THEN {"username"} ELSE {})
            \cup (IF ~(DisplayNameMinLen <= Len(display_name)
                       /\ Len(display_name) <= DisplayNameMaxLen)
                  THEN {"display_name"} ELSE {})
    ELSE IF step = 2 THEN
        LET email == PyLower(PyStrip(GetOrEmpty(form, "email")))
        IN  IF ~EMAIL_RE(email) THEN {"email"} ELSE {}
    ELSE IF step = 3 THEN
        IF ~PasswordOk(GetOrEmpty(form, "password")) THEN {"password"} ELSE {}
    ELSE IF step = 4 THEN
        LET age_raw == PyStrip(GetOrEmpty(form, "age"))
            dob_raw == PyStrip(GetOrEmpty(form, "date_of_birth"))
            dob == Strptime(dob_raw)
        IN  (IF ~IsDigitStr(age_raw) THEN {"age"}
             ELSE IF DigitsToInt(age_raw) < MinAge THEN {"age"} ELSE {})
            \cup (IF dob_raw = <<>> THEN {"date_of_birth"}
                  ELSE IF ~dob.ok THEN {"date_of_birth"}
                  ELSE IF _calculate_age(dob, date_today) < MinAge
                       THEN {"date_of_birth"} ELSE {})
    ELSE IF step = 5 THEN
        IF HasFile(form) /\ ~PictureNameOk(form["profile_picture"])
        THEN {"profile_picture"} ELSE {}
    ELSE {}

---------------------------------------------------------------------------
(* Values *)

\* None: no string of characters equals it
PyNone == <<"None">>

\* request.form.get(key)
FormGet(form, key) == IF key \in DOMAIN form THEN form[key] ELSE PyNone

Back == <<"b","a","c","k">>

Public == <<"p","u","b","l","i","c">>

Private == <<"p","r","i","v","a","t","e">>

DefaultAvatar == <<"i","m","g","/","d","e","f","a","u","l","t","_","a","v","a","t","a","r",".","p","n","g">>

\* generate_password_hash(password): one-way, told apart from every raw string
generate_password_hash(password) == <<"pbkdf2:">> \o password

check_password_hash(hash, password) == hash = generate_password_hash(password)

---------------------------------------------------------------------------
(* Sessions and the user table *)

Sessions == {"s1", "s2", "s3"}

\* session without a "register" key
NoReg == [present |-> FALSE, step |-> 1, data |-> EmptyDict]

\* _init_register_session
InitReg == [present |-> TRUE, step |-> 1, data |-> EmptyDict]

\* session.clear()
ClearedSession == [user_id |-> 0, reg |-> NoReg]

\* load_current_user: the row User.query.get(session["user_id"]), if any
LoggedIn(s) == \E u \in users : u.id = sessions[s].user_id

CurrentUser(s) == CHOOSE u \in users : u.id = sessions[s].user_id

Max(S) == CHOOSE x \in S : \A y \in S : y <= x

\* the rowid SQLite gives a new row of a table created by db.create_all()
NewId(rows) == IF rows = {} THEN 1 ELSE Max({r.id : r \in rows}) + 1

UniqueOk_unenforced(rows) == TRUE

\* the UNIQUE constraints of user.username and user.email, checked at commit
UniqueOk(rows) ==
    \A a, b \in rows :
        a.id # b.id => a.username # b.username /\ a.email # b.email

\* op: the route; step: the wizard step the request was handled at; outcome:
\* the branch taken; response: the page rendered or the redirect target;
\* errors: the fields with an error message; uid: the row the request made
\* view: the values handed to the template
Observe(op, s, step, outcome, response, errors, uid) ==
    last' = [op |-> op, sess |-> s, step |-> step, outcome |-> outcome,
             response |-> response, errors |-> errors, uid |-> uid,
             view |-> EmptyDict]

ObserveView(op, s, outcome, response, uid, view) ==
    last' = [op |-> op, sess |-> s, step |-> 0, outcome |-> outcome,
             response |-> response, errors |-> {}, uid |-> uid,
             view |-> view]

---------------------------------------------------------------------------
(* register: the wizard *)

MaxStep == 5

NextStep(step) == IF step + 1 < MaxStep THEN step + 1 ELSE MaxStep

BackStep_noclamp(step) == step - 1

BackStep(step) == IF step - 1 > 1 THEN step - 1 ELSE 1

\* reg_state after "if 'register' not in session: _init_register_session()"
CurrentReg(s) == IF sessions[s].reg.present THEN sessions[s].reg ELSE InitReg

\* int(request.form.get("step", step))
FormStep(form, step) ==
    IF "step" \in DOMAIN form THEN PyInt(form["step"])
    ELSE [ok |-> TRUE, val |-> step]

\* validation and, at steps 1 and 2, the uniqueness pre-check
RegisterErrors(step, form, rows) ==
    LET errors == validate_register_step(step, form)
    IN  IF errors # {} THEN errors
        ELSE IF step = 1
             /\ \E u \in rows : u.username = PyStrip(form["username"])
        THEN {"username"}
        ELSE IF step = 2
             /\ \E u \in rows : u.email = PyLower(PyStrip(form["email"]))
        THEN {"email"}
        ELSE {}

\* a step 3 that keeps the submitted password as it came
StepUpdate_raw_password(step, form) ==
    IF step = 1 THEN
        [username |-> PyStrip(form["username"]),
         display_name |-> PyStrip(form["display_name"])]
    ELSE IF step = 2 THEN [email |-> PyLower(PyStrip(form["email"]))]
    ELSE IF step = 3 THEN [password_hash |-> form["password"]]
    ELSE IF step = 4 THEN
        [age |-> PyStrip(form["age"]), date_of_birth |-> form["date_of_birth"]]
    ELSE EmptyDict

\* what a valid step 1..4 writes into the draft
StepUpdate(step, form) ==
    IF step = 1 THEN
        [username |-> PyStrip(form["username"]),
         display_name |-> PyStrip(form["display_name"])]
    ELSE IF step = 2 THEN [email |-> PyLower(PyStrip(form["email"]))]
    ELSE IF step = 3 THEN
        [password_hash |-> generate_password_hash(form["password"])]
    ELSE IF step = 4 THEN
        [age |-> PyStrip(form["age"]), date_of_birth |-> form["date_of_birth"]]
    ELSE EmptyDict

RequiredFields ==
    {"username", "email", "password_hash", "display_name", "date_of_birth"}

MissingRequired(data) == \E f \in RequiredFields : ~Truthy(data, f)

\* os.path.splitext(name.lower())[1]
SplitExt(name) ==
    LET dots == {i \in 2..Len(name) : name[i] = "."}
    IN  IF dots = {} THEN <<>>
        ELSE PyLower(SubSeq(name, Max(dots), Len(name)))

\* save_profile_picture(file): the stored relative path or None; "*" stands
\* for the uuid4 hex of the new file name
save_profile_picture(form) ==
    IF ~HasFile(form) THEN PyNone
    ELSE IF SplitExt(form["profile_picture"]) \notin AllowedExtensions THEN PyNone
    ELSE <<"u","p","l","o","a","d","s","/","*">> \o SplitExt(form["profile_picture"])

PictureUrl(form) ==
    IF save_profile_picture(form) = PyNone THEN DefaultAvatar
    ELSE save_profile_picture(form)

\* is_admin = User.query.count() == 0
IsAdminForNew(rows) == Cardinality(rows) = 0

NewUser(rows, data, dob) ==
    [id |-> NewId(rows),
     username |-> data["username"],
     email |-> data["email"],
     password_hash |-> data["password_hash"],
     display_name |-> data["display_name"],
     date_of_birth |-> [y |-> dob.y, m |-> dob.m, d |-> dob.d],
     privacy |-> Public,
     profile_picture_url |-> data["profile_picture_url"],
     is_admin |-> IsAdminForNew(rows)]

SetReg(s, reg) == [sessions EXCEPT ![s].reg = reg]

\* "back": lines 321-324
BackReg(reg0, step) == [reg0 EXCEPT !.step = BackStep(step)]

FailedReg_advance(reg0, step) == [reg0 EXCEPT !.step = NextStep(step)]

\* a "next" that fails validation: lines 410-412
FailedReg(reg0, step) == [reg0 EXCEPT !.step = step]

AdvancedReg_raw(reg0, step, form) ==
    [present |-> TRUE, step |-> NextStep(step),
     data |-> Merge(reg0.data,
                    IF step = 1
                    THEN [username |-> form["username"],
                          display_name |-> form["display_name"]]
                    ELSE StepUpdate(step, form))]

\* a valid "next" at a step other than 5: lines 345-358 and 406-409
AdvancedReg(reg0, step, form) ==
    [present |-> TRUE, step |-> NextStep(step),
     data |-> Merge(reg0.data, StepUpdate(step, form))]

ResetReg_keepdata(reg0) == [reg0 EXCEPT !.step = 1]

\* step 5 with a required field missing: lines 367-370
ResetReg(reg0) == InitReg

NewUser_swapped(rows, data, dob) ==
    [NewUser(rows, data, dob) EXCEPT !.display_name = data["username"]]

\* the row of lines 388-398
CommitUser(rows, data, dob) == NewUser(rows, data, dob)

DbUnchanged == UNCHANGED <<users, follows, messages, notifications, tokens, createdCount>>

\* the clock, the calendar, the token generator and the requests in flight
EnvUnchanged == UNCHANGED <<now, date_today, issued, inflight>>

\* GET /register
RegisterGet(s) ==
    /\ sessions' = SetReg(s, CurrentReg(s))
    /\ Observe("register", s, CurrentReg(s).step, "get", "register.html", {}, 0)
    /\ DbUnchanged
    /\ EnvUnchanged

\* step 5 of a valid "next": lines 359-404
RegisterCommit(s, reg0, form, maxCreated) ==
    IF MissingRequired(reg0.data) THEN
        /\ sessions' = SetReg(s, ResetReg(reg0))
        /\ Observe("register", s, 5, "reset", "redirect:register", {}, 0)
        /\ DbUnchanged
        /\ EnvUnchanged
    ELSE
    LET data == Merge(reg0.data, [profile_picture_url |-> PictureUrl(form)])
        dob == Strptime(data["date_of_birth"])
        user == CommitUser(users, data, dob)
    IN  IF ~dob.ok THEN
            /\ sessions' = SetReg(s, [present |-> TRUE, step |-> 4, data |-> data])
            /\ Observe("register", s, 5, "rewind", "redirect:register", {}, 0)
            /\ DbUnchanged
            /\ EnvUnchanged
        ELSE IF ~UniqueOk(users \cup {user}) THEN
            \* db.session.commit() raises IntegrityError, which nothing catches
            /\ Observe("register", s, 5, "integrity_error", "exception", {}, 0)
            /\ UNCHANGED sessions
            /\ DbUnchanged
            /\ EnvUnchanged
        ELSE
            /\ createdCount < maxCreated
            /\ users' = users \cup {user}
            /\ createdCount' = createdCount + 1
            /\ sessions' = [sessions EXCEPT ![s] =
                               [user_id |-> user.id, reg |-> NoReg]]
            /\ Observe("register", s, 5, "committed", "redirect:profile_setup", {}, user.id)
            /\ UNCHANGED <<follows, messages, notifications, tokens>>
            /\ EnvUnchanged

\* POST /register
RegisterPost(s, form, maxCreated) ==
    LET reg0 == CurrentReg(s)
        parsed == FormStep(form, reg0.step)
        step == parsed.val
        errors == RegisterErrors(step, form, users)
    IN  IF ~parsed.ok THEN
            \* int() raises ValueError; whether the response of the failed
            \* request still stores the session depends on the deployment
            /\ \E saved \in BOOLEAN :
                   sessions' = IF saved THEN SetReg(s, reg0) ELSE sessions
            /\ Observe("register", s, reg0.step, "server_error", "exception", {}, 0)
            /\ DbUnchanged
            /\ EnvUnchanged
        ELSE IF FormGet(form, "action") = Back THEN
            /\ sessions' = SetReg(s, BackReg(reg0, step))
            /\ Observe("register", s, step, "back", "register.html", {}, 0)
            /\ DbUnchanged
            /\ EnvUnchanged
        ELSE IF errors # {} THEN
            /\ sessions' = SetReg(s, FailedReg(reg0, step))
            /\ Observe("register", s, step, "errors", "register.html", errors, 0)
            /\ DbUnchanged
            /\ EnvUnchanged
        ELSE IF step = 5 THEN RegisterCommit(s, reg0, form, maxCreated)
        ELSE
            /\ sessions' = SetReg(s, AdvancedReg(reg0, step, form))
            /\ Observe("register", s, step, "advanced", "register.html", {}, 0)
            /\ DbUnchanged
            /\ EnvUnchanged

\* GET /logout
Logout(s) ==
    /\ sessions' = [sessions EXCEPT ![s] = ClearedSession]
    /\ Observe("logout", s, 0, "ok", "redirect:login", {}, 0)
    /\ DbUnchanged
    /\ EnvUnchanged

---------------------------------------------------------------------------
(* login, profile_edit / profile_setup, delete_account *)

\* validate_login
validate_login(form) ==
    (IF PyStrip(GetOrEmpty(form, "identifier")) = <<>> THEN {"identifier"} ELSE {})
    \cup (IF GetOrEmpty(form, "password") = <<>> THEN {"password"} ELSE {})

\* User.query.filter(or_(username == identifier, email == identifier.lower()))
LoginMatches(rows, identifier) ==
    {u \in rows : u.username = identifier \/ u.email = PyLower(identifier)}

\* POST /login (every row is_active: nothing clears the flag)
Login(s, form) ==
    LET errors == validate_login(form)
        found == LoginMatches(users, PyStrip(GetOrEmpty(form, "identifier")))
    IN  /\ DbUnchanged
        /\ EnvUnchanged
        /\ IF errors # {} THEN
               /\ Observe("login", s, 0, "errors", "login.html", errors, 0)
               /\ UNCHANGED sessions
           ELSE IF \A u \in found : ~check_password_hash(u.password_hash, form["password"])
           THEN
               /\ Observe("login", s, 0, "errors", "login.html", {"general"}, 0)
               /\ UNCHANGED sessions
           ELSE
               \* .first(): one of the matching rows
               \E u \in found :
                   /\ check_password_hash(u.password_hash, form["password"])
                   /\ sessions' = [sessions EXCEPT ![s] =
                                      [user_id |-> u.id, reg |-> NoReg]]
                   /\ Observe("login", s, 0, "ok", "redirect:home", {}, u.id)

PHONE_RE(s) ==
    /\ Len(IF s # <<>> /\ s[Len(s)] = "\n" THEN SubSeq(s, 1, Len(s) - 1) ELSE s) = 8
    /\ s[1] \in {"8", "9"}
    /\ \A i \in 2..8 : IsDigit(s[i])

BioMaxLen == 160

LocationMinLen == 2

LocationMaxLen == 20

\* validate_profile_update, without the cropped_avatar branch (no form of the
\* model carries a cropped avatar)
validate_profile_update(form) ==
    LET username == PyStrip(GetOrEmpty(form, "username"))
        display_name == PyStrip(GetOrEmpty(form, "display_name"))
        location == PyStrip(GetOrEmpty(form, "location"))
        phone == PyStrip(GetOrEmpty(form, "phone"))
        bio == PyStrip(GetOrEmpty(form, "bio"))
        privacy == PyStrip(GetOrEmpty(form, "privacy"))
        dob_raw == PyStrip(GetOrEmpty(form, "date_of_birth"))
    IN  (IF username # <<>> /\ ~USERNAME_RE(username) THEN {"username"} ELSE {})
        \cup (IF display_name # <<>>
                 /\ ~(DisplayNameMinLen <= Len(display_name)
                      /\ Len(display_name) <= DisplayNameMaxLen)
              THEN {"display_name"} ELSE {})
        \cup (IF location # <<>>
                 /\ ~(LocationMinLen <= Len(location) /\ Len(location) <= LocationMaxLen)
              THEN {"location"} ELSE {})
        \cup (IF phone # <<>> /\ ~PHONE_RE(phone) THEN {"phone"} ELSE {})
        \cup (IF Len(bio) > BioMaxLen THEN {"bio"} ELSE {})
        \cup (IF privacy # <<>> /\ privacy \notin {Public, Private}
              THEN {"privacy"} ELSE {})
        \cup (IF dob_raw = <<>> THEN {}
              ELSE IF ~Strptime(dob_raw).ok THEN {"date_of_birth"}
              ELSE IF _calculate_age(Strptime(dob_raw), date_today) < MinAge
                   THEN {"date_of_birth"} ELSE {})
        \cup (IF HasFile(form) /\ ~PictureNameOk(form["profile_picture"])
              THEN {"profile_picture"} ELSE {})

\* the row after lines 547-568 (the columns bio, location, gender, age_group,
\* phone, website and the hobbies are not part of the model's rows)
EditedUser(user, form) ==
    LET new_username == PyStrip(GetOrEmpty(form, "username"))
        dob == Strptime(GetOrEmpty(form, "date_of_birth"))
    IN  [user EXCEPT
            !.username = IF new_username # <<>> THEN new_username ELSE @,
            !.display_name = PyStrip(form["display_name"]),
            !.privacy = FormGet(form, "privacy"),
            !.date_of_birth = IF Truthy(form, "date_of_birth")
                              THEN [y |-> dob.y, m |-> dob.m, d |-> dob.d] ELSE @,
            !.profile_picture_url = IF save_profile_picture(form) # PyNone
                                    THEN save_profile_picture(form) ELSE @]

\* the fields whose .strip() is called on request.form.get(...)
EditRequiredKeys == {"display_name", "bio", "website"}

LoginRequired(op, s) ==
    /\ Observe(op, s, 0, "login_required", "redirect:login", {}, 0)
    /\ UNCHANGED sessions
    /\ DbUnchanged
    /\ EnvUnchanged

\* POST /profile/edit and POST /profile/setup (the same statements)
ProfileEdit(op, s, form) ==
    IF ~LoggedIn(s) THEN LoginRequired(op, s)
    ELSE
    LET errors == validate_profile_update(form)
        user == CurrentUser(s)
        new_username == PyStrip(GetOrEmpty(form, "username"))
        edited == EditedUser(user, form)
    IN  /\ UNCHANGED <<sessions, follows, messages, notifications, tokens, createdCount>>
        /\ EnvUnchanged
        /\ IF errors # {} THEN
               /\ Observe(op, s, 0, "errors", "profile_edit.html", errors, 0)
               /\ UNCHANGED users
           ELSE IF /\ new_username # <<>>
                   /\ new_username # user.username
                   /\ \E u \in users : u.username = new_username
           THEN
               /\ Observe(op, s, 0, "errors", "profile_edit.html", {"username"}, 0)
               /\ UNCHANGED users
           ELSE IF \/ ~(EditRequiredKeys \subseteq DOMAIN form)
                   \/ (Truthy(form, "date_of_birth")
                       /\ ~Strptime(form["date_of_birth"]).ok)
           THEN
               \* None.strip() or strptime on the untrimmed value raises
               /\ Observe(op, s, 0, "server_error", "exception", {}, 0)
               /\ UNCHANGED users
           ELSE IF ~UniqueOk((users \ {user}) \cup {edited}) THEN
               /\ Observe(op, s, 0, "integrity_error", "exception", {}, 0)
               /\ UNCHANGED users
           ELSE
               /\ users' = (users \ {user}) \cup {edited}
               /\ Observe(op, s, 0, "updated", "redirect:profile", {}, user.id)

\* validate_delete_account
validate_delete_account(form, user) ==
    (IF PyStrip(GetOrEmpty(form, "confirm_username")) # user.username
     THEN {"confirm_username"} ELSE {})
    \cup (IF GetOrEmpty(form, "password") = <<>> THEN {"password"} ELSE {})

\* POST /delete-account: the token rows and the user row go; the follow,
\* message and notification rows stay (no cascade is declared in models.py)
DeleteAccount(s, form) ==
    IF ~LoggedIn(s) THEN LoginRequired("delete_account", s)
    ELSE
    LET user == CurrentUser(s)
        errors == validate_delete_account(form, user)
    IN  /\ UNCHANGED <<follows, messages, notifications, createdCount>>
        /\ EnvUnchanged
        /\ IF errors # {} THEN
               /\ Observe("delete_account", s, 0, "errors", "confirm_delete.html", errors, 0)
               /\ UNCHANGED <<users, sessions, tokens>>
           ELSE IF ~check_password_hash(user.password_hash, form["password"]) THEN
               /\ Observe("delete_account", s, 0, "errors", "confirm_delete.html",
                          {"password"}, 0)
               /\ UNCHANGED <<users, sessions, tokens>>
           ELSE
               /\ tokens' = {t \in tokens : t.user_id # user.id}
               /\ users' = users \ {user}
               /\ sessions' = [sessions EXCEPT ![s] = ClearedSession]
               /\ Observe("delete_account", s, 0, "deleted", "redirect:index", {}, user.id)

---------------------------------------------------------------------------
(* profile_public, search, follow, unfollow, message *)

\* User.query.filter_by(username=username).first_or_404()
UserNamed(rows, username) == {u \in rows : u.username = username}

\* Follow.query.filter_by(follower_id=a, followed_id=b).first() is not None
HasFollow(a, b) == \E f \in follows : f.follower_id = a /\ f.followed_id = b

CanMessageProfile(privacy, is_following, is_followed_by) ==
    privacy = Public \/ (is_following /\ is_followed_by)

CanMessageSearch_either(privacy, is_following, is_followed_by) ==
    privacy = Public \/ (is_following \/ is_followed_by)

CanMessageSearch(privacy, is_following, is_followed_by) ==
    privacy = Public \/ (is_following /\ is_followed_by)

CanMessageAction(privacy, is_following, is_followed_by) ==
    privacy = Public \/ (is_following /\ is_followed_by)

\* the template values of profile_public for viewer id `me` (0: anonymous, or
\* a session whose user row is gone) and row `user`
ProfileValues(me, user) ==
    LET is_owner == me # 0 /\ me = user.id
        other == me # 0 /\ ~is_owner
        is_following == other /\ HasFollow(me, user.id)
        is_followed_by == other /\ HasFollow(user.id, me)
        follower_ids == {f.follower_id : f \in {g \in follows : g.followed_id = user.id}}
        current_following_ids ==
            {f.followed_id : f \in {g \in follows : g.follower_id = me}}
    IN  [target |-> user.id,
         is_owner |-> is_owner,
         is_following |-> is_following,
         is_followed_by |-> is_followed_by,
         can_message |-> other /\ CanMessageProfile(user.privacy, is_following,
                                                    is_followed_by),
         mutual_followers |->
             IF other
             THEN {u.id : u \in {w \in users :
                                    w.id \in follower_ids \cap current_following_ids}}
             ELSE {},
         private |-> user.privacy = Private /\ ~is_owner,
         followers_count |-> Cardinality({f \in follows : f.followed_id = user.id}),
         following_count |-> Cardinality({f \in follows : f.follower_id = user.id})]

Me(s) == IF LoggedIn(s) THEN sessions[s].user_id ELSE 0

\* GET /users/<username>: no login is required
ProfilePublic(s, username) ==
    /\ UNCHANGED sessions
    /\ DbUnchanged
    /\ EnvUnchanged
    /\ IF UserNamed(users, username) = {} THEN
           ObserveView("profile_public", s, "not_found", "404", 0, EmptyDict)
       ELSE \E user \in UserNamed(users, username) :
           ObserveView("profile_public", s, "ok", "profile_public.html", 0,
                       ProfileValues(Me(s), user))

\* needle occurs in hay
Contains(hay, needle) ==
    \E i \in 1..(Len(hay) - Len(needle) + 1) :
        SubSeq(hay, i, i + Len(needle) - 1) = needle

\* column.ilike("%query%") for a query without the wildcards % and _
ILike(text, query) == Contains(PyLower(text), PyLower(query))

\* the rows of the search query; .limit(20) cuts nothing below 21 rows
SearchResults(rows, query) ==
    IF query = <<>> THEN {}
    ELSE {u \in rows : ILike(u.username, query) \/ ILike(u.display_name, query)}

\* GET /search?q=
SearchUsers(s, q) ==
    IF ~LoggedIn(s) THEN LoginRequired("search", s)
    ELSE
    LET me == sessions[s].user_id
        results == SearchResults(users, PyStrip(q))
        others == {u \in results : u.id # me}
        RowOf(id) == CHOOSE u \in others : u.id = id
    IN  /\ UNCHANGED sessions
        /\ DbUnchanged
        /\ EnvUnchanged
        /\ ObserveView("search", s, "ok", "search.html", 0,
              [results |-> {u.id : u \in results},
               follow_map |-> [id \in {u.id : u \in others} |-> HasFollow(me, id)],
               message_map |->
                   [id \in {u.id : u \in others} |->
                       CanMessageSearch(RowOf(id).privacy, HasFollow(me, id),
                                        HasFollow(id, me))]])

\* f"{display_name or username} followed you."
ActorName(user) == IF user.display_name # <<>> /\ user.display_name # PyNone
                   THEN user.display_name ELSE user.username

NewNotification(owner, type, actor) ==
    [id |-> NewId(notifications), user_id |-> owner, type |-> type,
     message |-> ActorName(actor) \o <<" ", type, "ed you.">>,
     created_at |-> now, read |-> FALSE]

FollowsSelf_never(me, user) == FALSE

\* user.id == g.current_user.id
FollowsSelf(me, user) == user.id = me.id

UnfollowNotifies_always(removed) == TRUE

\* `if removed:` with removed the number of rows the delete removed
UnfollowNotifies(removed) == removed # {}

\* POST /users/<username>/follow
FollowUser(s, username, maxNotifications) ==
    IF ~LoggedIn(s) THEN LoginRequired("follow", s)
    ELSE IF UserNamed(users, username) = {} THEN
        /\ ObserveView("follow", s, "not_found", "404", 0, EmptyDict)
        /\ UNCHANGED sessions
        /\ DbUnchanged
        /\ EnvUnchanged
    ELSE \E user \in UserNamed(users, username) :
        LET me == CurrentUser(s)
        IN  /\ UNCHANGED <<users, sessions, messages, tokens, createdCount>>
            /\ EnvUnchanged
            /\ IF FollowsSelf(me, user) THEN
                   /\ ObserveView("follow", s, "self", "redirect:profile_public", 0,
                                  [target |-> user.id])
                   /\ UNCHANGED <<follows, notifications>>
               ELSE IF HasFollow(me.id, user.id) THEN
                   /\ ObserveView("follow", s, "already", "redirect:profile_public", 0,
                                  [target |-> user.id])
                   /\ UNCHANGED <<follows, notifications>>
               ELSE
                   /\ Cardinality(notifications) < maxNotifications
                   /\ follows' = follows \cup
                          {[id |-> NewId(follows), follower_id |-> me.id,
                            followed_id |-> user.id]}
                   /\ notifications' = notifications \cup
                          {NewNotification(user.id, "follow", me)}
                   /\ ObserveView("follow", s, "followed", "redirect:profile_public",
                                  user.id, [target |-> user.id])

\* POST /users/<username>/unfollow
UnfollowUser(s, username, maxNotifications) ==
    IF ~LoggedIn(s) THEN LoginRequired("unfollow", s)
    ELSE IF UserNamed(users, username) = {} THEN
        /\ ObserveView("unfollow", s, "not_found", "404", 0, EmptyDict)
        /\ UNCHANGED sessions
        /\ DbUnchanged
        /\ EnvUnchanged
    ELSE \E user \in UserNamed(users, username) :
        LET me == CurrentUser(s)
            removed == {f \in follows : f.follower_id = me.id /\ f.followed_id = user.id}
        IN  /\ UNCHANGED <<users, sessions, messages, tokens, createdCount>>
            /\ EnvUnchanged
            /\ IF ~UnfollowNotifies(removed) THEN
                   /\ ObserveView("unfollow", s, "absent", "redirect:profile_public", 0,
                                  [target |-> user.id])
                   /\ UNCHANGED <<follows, notifications>>
               ELSE
                   /\ Cardinality(notifications) < maxNotifications
                   /\ follows' = follows \ removed
                   /\ notifications' = notifications \cup
                          {NewNotification(user.id, "unfollow", me)}
                   /\ ObserveView("unfollow", s, "unfollowed", "redirect:profile_public",
                                  user.id, [target |-> user.id])

\* _can_view_connections(target_user) for viewer id `me` (0: anonymous)
_can_view_connections_mutual(me, target_user) ==
    \/ target_user.privacy = Public
    \/ me # 0 /\ me = target_user.id
    \/ HasFollow(me, target_user.id) /\ HasFollow(target_user.id, me)

_can_view_connections(me, target_user) ==
    \/ target_user.privacy = Public
    \/ me # 0 /\ me = target_user.id

\* the rows User.query.filter(User.id.in_(ids)).all()
UsersWithIds(ids) == {u.id : u \in {w \in users : w.id \in ids}}

\* GET /users/<username>/followers (which = "followers") and
\* GET /users/<username>/following (which = "following")
ConnectionsList(which, s, username) ==
    IF ~LoggedIn(s) THEN LoginRequired(which, s)
    ELSE
    /\ UNCHANGED sessions
    /\ DbUnchanged
    /\ EnvUnchanged
    /\ IF UserNamed(users, username) = {} THEN
           ObserveView(which, s, "not_found", "404", 0, EmptyDict)
       ELSE \E user \in UserNamed(users, username) :
           IF ~_can_view_connections(Me(s), user) THEN
               ObserveView(which, s, "private", "redirect:profile_public", 0,
                           [target |-> user.id])
           ELSE
               ObserveView(which, s, "shown", "connections_list.html", 0,
                   [target |-> user.id,
                    items |->
                        IF which = "followers"
                        THEN UsersWithIds({f.follower_id :
                                 f \in {g \in follows : g.followed_id = user.id}})
                        ELSE UsersWithIds({f.followed_id :
                                 f \in {g \in follows : g.follower_id = user.id}})])

FollowersList(s, username) == ConnectionsList("followers", s, username)

FollowingList(s, username) == ConnectionsList("following", s, username)

\* follow_user up to its existence check (lines 800-806), for a server that
\* handles requests concurrently: a request that found no edge waits in
\* `inflight` for its insert
FollowBegin(s, username, maxInflight) ==
    IF ~LoggedIn(s) THEN LoginRequired("follow", s)
    ELSE IF UserNamed(users, username) = {} THEN
        /\ ObserveView("follow", s, "not_found", "404", 0, EmptyDict)
        /\ UNCHANGED sessions
        /\ DbUnchanged
        /\ EnvUnchanged
    ELSE \E user \in UserNamed(users, username) :
        LET me == CurrentUser(s)
            free == (1..maxInflight) \ {r.req : r \in inflight}
        IN  /\ UNCHANGED sessions
            /\ DbUnchanged
            /\ UNCHANGED <<now, date_today, issued>>
            /\ IF FollowsSelf(me, user) THEN
                   /\ ObserveView("follow", s, "self", "redirect:profile_public", 0,
                                  [target |-> user.id])
                   /\ UNCHANGED inflight
               ELSE IF HasFollow(me.id, user.id) THEN
                   /\ ObserveView("follow", s, "already", "redirect:profile_public", 0,
                                  [target |-> user.id])
                   /\ UNCHANGED inflight
               ELSE
                   /\ free # {}
                   /\ inflight' = inflight \cup
                          {[req |-> CHOOSE n \in free : \A m \in free : n <= m,
                            sess |-> s, me |-> me, target |-> user.id]}
                   /\ UNCHANGED last

\* the rest of follow_user (lines 807-822) for a request in flight
FollowCommit(r, maxNotifications) ==
    /\ r \in inflight
    /\ Cardinality(notifications) < maxNotifications
    /\ inflight' = inflight \ {r}
    /\ follows' = follows \cup
           {[id |-> NewId(follows), follower_id |-> r.me.id, followed_id |-> r.target]}
    /\ notifications' = notifications \cup {NewNotification(r.target, "follow", r.me)}
    /\ ObserveView("follow", r.sess, "followed", "redirect:profile_public", r.target,
                   [target |-> r.target])
    /\ UNCHANGED <<users, sessions, messages, tokens, createdCount>>
    /\ UNCHANGED <<now, date_today, issued>>

\* the notification rows of user id `me`
NotificationsOf(rows, me) == {n \in rows : n.user_id = me}

\* order_by(Notification.created_at.desc()): the orders the database may
\* return, as sequences of row ids; rows of equal created_at come in any order
NewestFirst(rows) ==
    LET ids == {n.id : n \in rows}
        At(id) == (CHOOSE n \in rows : n.id = id).created_at
    IN  {sq \in [1..Cardinality(ids) -> ids] :
            /\ \A i, j \in DOMAIN sq : i # j => sq[i] # sq[j]
            /\ \A i, j \in DOMAIN sq : i < j => At(sq[i]) >= At(sq[j])}

MarkRead_everyone(rows, me) == {[n EXCEPT !.read = TRUE] : n \in rows}

\* Notification.query.filter_by(user_id=me, read_at=None).update(read_at=now)
MarkRead(rows, me) ==
    {IF n.user_id = me THEN [n EXCEPT !.read = TRUE] ELSE n : n \in rows}

\* inject_user: the unread count the template shows
notification_count(rows, me) ==
    Cardinality({n \in rows : n.user_id = me /\ ~n.read})

\* GET /notifications
Notifications(s) ==
    IF ~LoggedIn(s) THEN LoginRequired("notifications", s)
    ELSE
    LET me == sessions[s].user_id
        marked == MarkRead(notifications, me)
    IN  /\ notifications' = marked
        /\ UNCHANGED <<users, sessions, follows, messages, tokens, createdCount>>
        /\ EnvUnchanged
        /\ \E items \in NewestFirst(NotificationsOf(notifications, me)) :
               ObserveView("notifications", s, "ok", "notifications.html", 0,
                           [items |-> items,
                            notification_count |-> notification_count(marked, me)])

---------------------------------------------------------------------------
(* forgot_password, reset_password *)

\* used_at IS NULL
NullTime == 0 - 1

\* timedelta(minutes=30)
TokenLifetime == 30

\* secrets.token_urlsafe(32): the n-th value returned; no two are equal
generate_token(n) == <<"raw", n>>

\* hashlib.sha256(token).hexdigest(): one-way, no two raw tokens collide
hash_token(token) == <<"sha256", token[2]>>

is_valid_strict(record, t) == record.used_at = NullTime /\ t < record.expires_at

\* PasswordResetToken.is_valid at time t
is_valid(record, t) == record.used_at = NullTime /\ t <= record.expires_at

\* PasswordResetToken.create_for_user: the record for raw token `raw`
create_for_user(user, raw) ==
    [id |-> NewId(tokens), user_id |-> user.id, token_hash |-> hash_token(raw),
     created_at |-> now, expires_at |-> now + TokenLifetime, used_at |-> NullTime]

validate_forgot_password(form) ==
    IF EMAIL_RE(PyLower(PyStrip(GetOrEmpty(form, "email")))) THEN {} ELSE {"email"}

UserWithEmail_any(rows, email) == rows

\* User.query.filter_by(email=email).first()
UserWithEmail(rows, email) == {u \in rows : u.email = email}

\* POST /forgot-password
ForgotPassword(s, form, maxIssued) ==
    LET errors == validate_forgot_password(form)
        email == PyLower(PyStrip(form["email"]))
        raw_token == generate_token(issued + 1)
    IN  /\ UNCHANGED <<users, sessions, follows, messages, notifications, createdCount>>
        /\ UNCHANGED <<now, date_today, inflight>>
        /\ IF errors # {} THEN
               /\ last' = [op |-> "forgot_password", sess |-> s, step |-> 0,
                           outcome |-> "errors", response |-> "forgot_password.html",
                           errors |-> errors, uid |-> 0,
                           view |-> [form |-> form, reset_link |-> PyNone]]
               /\ UNCHANGED <<tokens, issued>>
           ELSE
               /\ issued < maxIssued
               /\ issued' = issued + 1
               /\ IF UserWithEmail(users, email) # {} THEN
                      \E user \in UserWithEmail(users, email) :
                          tokens' = tokens \cup {create_for_user(user, raw_token)}
                  ELSE UNCHANGED tokens
               /\ ObserveView("forgot_password", s, "link", "forgot_password.html", 0,
                              [form |-> form, reset_link |-> raw_token,
                               flash |-> "success"])

validate_reset_password(form) ==
    (IF PasswordOk(GetOrEmpty(form, "password")) THEN {} ELSE {"password"})
    \cup (IF GetOrEmpty(form, "password") # GetOrEmpty(form, "confirm_password")
          THEN {"confirm_password"} ELSE {})

\* a lookup that yields every record of the user the token belongs to
TokenRecords_of_user(rows, token) ==
    {r \in rows : \E m \in rows : /\ m.token_hash = hash_token(token)
                                  /\ m.user_id = r.user_id}

\* PasswordResetToken.query.filter_by(token_hash=token_hash).first()
TokenRecords(rows, token) == {r \in rows : r.token_hash = hash_token(token)}

MarkUsed_not(record, t) == record

\* record.used_at = datetime.utcnow()
MarkUsed(record, t) == [record EXCEPT !.used_at = t]

\* GET and POST /reset-password/<token>; a GET carries no form
ResetPassword(s, method, token, form) ==
    LET shown == [token |-> token, method |-> method, form |-> form]
        Invalid ==
            /\ ObserveView("reset_password", s, "invalid", "reset_password.html", 0,
                           Merge(shown, [invalid |-> TRUE]))
            /\ UNCHANGED <<users, tokens>>
    IN
    /\ UNCHANGED <<sessions, follows, messages, notifications, createdCount>>
    /\ EnvUnchanged
    /\ IF TokenRecords(tokens, token) = {} THEN Invalid
       ELSE \E record \in TokenRecords(tokens, token) :
           LET errors == validate_reset_password(form)
           IN  IF ~is_valid(record, now) THEN Invalid
               ELSE IF method = "GET" \/ errors # {} THEN
                   /\ last' = [op |-> "reset_password", sess |-> s, step |-> 0,
                               outcome |-> "form", response |-> "reset_password.html",
                               errors |-> IF method = "GET" THEN {} ELSE errors,
                               uid |-> 0,
                               view |-> Merge(shown, [invalid |-> FALSE])]
                   /\ UNCHANGED <<users, tokens>>
               ELSE IF \A u \in users : u.id # record.user_id THEN
                   \* User.query.get returns None: AttributeError on set_password
                   /\ ObserveView("reset_password", s, "server_error", "exception", 0,
                                  shown)
                   /\ UNCHANGED <<users, tokens>>
               ELSE
                   /\ users' = {IF u.id = record.user_id
                                THEN [u EXCEPT !.password_hash =
                                         generate_password_hash(form["password"])]
                                ELSE u : u \in users}
                   /\ tokens' = (tokens \ {record}) \cup {MarkUsed(record, now)}
                   /\ ObserveView("reset_password", s, "updated", "redirect:login",
                                  record.user_id, shown)

\* validate_change_password
validate_change_password(form) ==
    LET old_password == GetOrEmpty(form, "old_password")
        new_password == GetOrEmpty(form, "new_password")
        confirm_password == GetOrEmpty(form, "confirm_password")
    IN  (IF old_password = <<>> THEN {"old_password"} ELSE {})
        \cup (IF ~PasswordOk(new_password) THEN {"new_password"} ELSE {})
        \cup (IF new_password # confirm_password THEN {"confirm_password"} ELSE {})

\* POST /change-password
ChangePassword(s, form) ==
    IF ~LoggedIn(s) THEN LoginRequired("change_password", s)
    ELSE
    LET errors == validate_change_password(form)
        user == CurrentUser(s)
    IN  /\ UNCHANGED <<sessions, follows, messages, notifications, tokens, createdCount>>
        /\ EnvUnchanged
        /\ IF errors # {} THEN
               /\ Observe("change_password", s, 0, "errors", "change_password.html",
                          errors, 0)
               /\ UNCHANGED users
           ELSE IF ~check_password_hash(user.password_hash, form["old_password"]) THEN
               /\ Observe("change_password", s, 0, "errors", "change_password.html",
                          {"old_password"}, 0)
               /\ UNCHANGED users
           ELSE
               /\ users' = (users \ {user}) \cup
                      {[user EXCEPT !.password_hash =
                           generate_password_hash(form["new_password"])]}
               /\ Observe("change_password", s, 0, "updated", "redirect:profile", {},
                          user.id)

\* the minutes that pass between two requests
TickMinutes == {15, 30}

\* time passes
Tick(maxTime) ==
    \E d \in TickMinutes :
        /\ now + d <= maxTime
        /\ now' = now + d
        /\ UNCHANGED <<users, sessions, follows, messages, notifications, tokens,
                       createdCount, date_today, issued, inflight, last>>

MaxMessageLen == 500

MessageBodyError_strict(body) ==
    IF body = <<>> THEN "empty"
    ELSE IF Len(body) >= MaxMessageLen THEN "too_long" ELSE "none"

\* lines 874-880, applied to the trimmed body
MessageBodyError(body) ==
    IF body = <<>> THEN "empty"
    ELSE IF Len(body) > MaxMessageLen THEN "too_long" ELSE "none"

\* POST /users/<username>/message
MessageUser(s, username, form, maxMessages) ==
    IF ~LoggedIn(s) THEN LoginRequired("message", s)
    ELSE IF UserNamed(users, username) = {} THEN
        /\ ObserveView("message", s, "not_found", "404", 0, EmptyDict)
        /\ UNCHANGED sessions
        /\ DbUnchanged
        /\ EnvUnchanged
    ELSE \E user \in UserNamed(users, username) :
        LET me == CurrentUser(s)
            can_message == CanMessageAction(user.privacy, HasFollow(me.id, user.id),
                                            HasFollow(user.id, me.id))
            body == PyStrip(GetOrEmpty(form, "message"))
            sent == [target |-> user.id, form |-> form]
            row == [id |-> NewId(messages), sender_id |-> me.id,
                    receiver_id |-> user.id, body |-> body]
        IN  /\ UNCHANGED <<users, sessions, follows, notifications, tokens, createdCount>>
            /\ EnvUnchanged
            /\ IF user.id = me.id THEN
                   /\ ObserveView("message", s, "self", "redirect:profile_public", 0, sent)
                   /\ UNCHANGED messages
               ELSE IF ~can_message THEN
                   /\ ObserveView("message", s, "not_allowed", "redirect:profile_public",
                                  0, Merge(sent, [can_message |-> FALSE]))
                   /\ UNCHANGED messages
               ELSE IF MessageBodyError(body) # "none" THEN
                   /\ ObserveView("message", s, MessageBodyError(body),
                                  "redirect:profile_public", 0,
                                  Merge(sent, [can_message |-> TRUE]))
                   /\ UNCHANGED messages
               ELSE
                   /\ Cardinality(messages) < maxMessages
                   /\ messages' = messages \cup {row}
                   /\ ObserveView("message", s, "sent", "redirect:profile_public",
                                  row.id, Merge(sent, [can_message |-> TRUE]))

---------------------------------------------------------------------------
(* Requests of the wizard run: one browser session, many form values *)

Ann == <<"a","n","n">>

Bob == <<"b","o","b">>

AnnMail == <<"a","@","x",".","i","o">>

BobMail == <<"b","@","x",".","i","o">>

GoodPassword == <<"P","a","s","s","w","0","r","d">>

\* born exactly 13 years before Today
DobThirteen == <<"2","0","1","3","-","1","1","-","0","2">>

\* one day short of 13 years
DobTooYoung == <<"2","0","1","3","-","1","1","-","0","3">>

DobAdult == <<"2","0","0","0","-","0","1","-","0","1">>

Step1Forms ==
    { [username |-> Ann, display_name |-> <<"A","n","n">>],
      [username |-> <<" ">> \o Bob \o <<" ">>, display_name |-> <<" ","B","o","\t">>],
      [username |-> <<"a","!","b">>, display_name |-> <<"A","n","n">>],
      [username |-> Ann, display_name |-> <<"A">>] }

Step2Forms ==
    { [email |-> AnnMail],
      [email |-> <<" ","B","@","X",".","i","o"," ">>],
      [email |-> <<"a","@","x">>] }

Step3Forms ==
    { [password |-> GoodPassword],
      [password |-> <<"p","a","s","s","w","o","r","d">>] }

Step4Forms ==
    { [age |-> <<"1","3">>, date_of_birth |-> DobThirteen],
      [age |-> <<" ","2","6"," ">>, date_of_birth |-> <<" ">> \o DobAdult],
      [age |-> <<"1","2">>, date_of_birth |-> DobTooYoung],
      [age |-> <<"x">>, date_of_birth |-> <<"2","0","0","0","-","0","2","-","3","0">>] }

Step5Forms ==
    { EmptyDict,
      [profile_picture |-> <<"a",".","g","i","f">>] }

\* the forms the pages post: the hidden step field names the page's step
PageForms ==
    {Merge(f, [step |-> <<"1">>]) : f \in Step1Forms}
    \cup {Merge(f, [step |-> <<"2">>]) : f \in Step2Forms}
    \cup {Merge(f, [step |-> <<"3">>]) : f \in Step3Forms}
    \cup {Merge(f, [step |-> <<" ","4">>]) : f \in Step4Forms}
    \cup {Merge(f, [step |-> <<"5">>]) : f \in Step5Forms}

\* forms without a step field: the step stored in the session is used
SteplessForms ==
    { [username |-> Ann, display_name |-> <<"A","n","n">>],
      [email |-> AnnMail],
      [password |-> GoodPassword],
      [age |-> <<"1","3">>, date_of_birth |-> DobThirteen],
      EmptyDict,
      [action |-> Back] }

\* step fields that name no page, and one that is no number
OddStepTexts == { <<"0">>, <<"-","1">>, <<"7">>, <<"x">> }

OddForms ==
    {[step |-> t] : t \in OddStepTexts}
    \cup {[action |-> Back, step |-> t] : t \in OddStepTexts \cup {<<"5">>, <<"3">>}}

WizardForms == PageForms \cup SteplessForms \cup OddForms

\* user rows the wizard run may insert
MaxCreated == 1

NoRequest == [op |-> "none", sess |-> "s1", step |-> 0, outcome |-> "none",
              response |-> "none", errors |-> {}, uid |-> 0, view |-> EmptyDict]

Init ==
    /\ users = {}
    /\ sessions = [s \in Sessions |-> ClearedSession]
    /\ follows = {}
    /\ messages = {}
    /\ notifications = {}
    /\ tokens = {}
    /\ createdCount = 0
    /\ now = 0
    /\ date_today = Today
    /\ issued = 0
    /\ inflight = {}
    /\ last = NoRequest

Next ==
    \/ RegisterGet("s1")
    \/ \E form \in WizardForms : RegisterPost("s1", form, MaxCreated)
    \/ Logout("s1")

Spec == Init /\ [][Next]_vars

---------------------------------------------------------------------------
(* Requests of the accounts run: two browser sessions that register, rename
   and delete accounts; each page posts without a step field *)

AccountForms(s) ==
    { [username |-> Ann, display_name |-> <<"A","n","n">>],
      [email |-> AnnMail],
      [password |-> GoodPassword],
      [age |-> <<"2","6">>, date_of_birth |-> DobAdult],
      EmptyDict }
    \cup (IF s = "s2"
          THEN { [username |-> Bob, display_name |-> <<"B","o","b">>],
                 [email |-> BobMail] }
          ELSE {})

RenameForms ==
    { [username |-> n, display_name |-> <<"A","n","n">>, bio |-> <<>>,
       website |-> <<>>, privacy |-> Public] : n \in {Ann, Bob} }

DeleteForms ==
    { [confirm_username |-> n, password |-> GoodPassword] : n \in {Ann, Bob} }

\* user rows the accounts run may insert
MaxCreatedUsers == 2

NextUsers ==
    \E s \in {"s1", "s2"} :
        \/ \E form \in AccountForms(s) : RegisterPost(s, form, MaxCreatedUsers)
        \/ LoggedIn(s) /\ \E form \in RenameForms : ProfileEdit("profile_edit", s, form)
        \/ LoggedIn(s) /\ \E form \in DeleteForms : DeleteAccount(s, form)

SpecUsers == Init /\ [][NextUsers]_vars

---------------------------------------------------------------------------
(* Requests of the social run: ann (s1) and bob (s2) are registered and
   logged in, s3 is an anonymous visitor *)

Zed == <<"z","e","d">>

RegisteredUser(id, username, email, display_name) ==
    [id |-> id, username |-> username, email |-> email,
     password_hash |-> generate_password_hash(GoodPassword),
     display_name |-> display_name,
     date_of_birth |-> [y |-> 2000, m |-> 1, d |-> 1],
     privacy |-> Public, profile_picture_url |-> DefaultAvatar,
     is_admin |-> id = 1]

\* the state after ann and then bob went through the wizard
InitSocial ==
    /\ users = { RegisteredUser(1, Ann, AnnMail, <<"A","n","n">>),
                 RegisteredUser(2, Bob, BobMail, <<"B","o","b">>) }
    /\ sessions = [s \in Sessions |->
                      IF s = "s1" THEN [user_id |-> 1, reg |-> NoReg]
                      ELSE IF s = "s2" THEN [user_id |-> 2, reg |-> NoReg]
                      ELSE ClearedSession]
    /\ follows = {}
    /\ messages = {}
    /\ notifications = {}
    /\ tokens = {}
    /\ createdCount = 2
    /\ now = 0
    /\ date_today = Today
    /\ issued = 0
    /\ inflight = {}
    /\ last = NoRequest

Usernames == {Ann, Bob, Zed}

\* the sessions of ann and bob
Members == {"s1", "s2"}

PrivacyForms(s) ==
    { [display_name |-> IF s = "s1" THEN <<"A","n","n">> ELSE <<"B","o","b">>,
       bio |-> <<>>, website |-> <<>>, privacy |-> p] : p \in {Public, Private} }

XBody(n) == [i \in 1..n |-> "x"]

MessageForms ==
    { [message |-> <<" ", "\n">>],
      [message |-> <<" ","h">>],
      [message |-> <<" ">> \o XBody(MaxMessageLen) \o <<" ">>],
      [message |-> XBody(MaxMessageLen + 1)] }

Queries == { <<>>, <<"N">>, <<" ","b","o"," ">> }

\* notification rows and message rows the social run may insert
MaxNotifications == 2

MaxMessages == 1

NextSocial ==
    \/ \E s \in Sessions, n \in Usernames : ProfilePublic(s, n)
    \/ \E s \in Sessions, q \in Queries : SearchUsers(s, q)
    \/ \E s \in Sessions, n \in Usernames : FollowUser(s, n, MaxNotifications)
    \/ \E s \in Members, n \in Usernames : UnfollowUser(s, n, MaxNotifications)
    \/ \E s \in Members, n \in {Ann, Bob}, form \in MessageForms :
           MessageUser(s, n, form, MaxMessages)
    \/ \E s \in Members : \E form \in PrivacyForms(s) :
           ProfileEdit("profile_edit", s, form)

SpecSocial == InitSocial /\ [][NextSocial]_vars

---------------------------------------------------------------------------
(* Requests of the graph run: the social run's users and sessions, with
   follow requests that may interleave *)

\* follow requests that may be between check and insert at once
MaxInflight == 2

NextGraph ==
    \/ \E s \in Sessions, n \in Usernames : FollowBegin(s, n, MaxInflight)
    \/ \E r \in inflight : FollowCommit(r, MaxNotifications)
    \/ \E s \in Members, n \in Usernames : UnfollowUser(s, n, MaxNotifications)
    \/ \E s \in Sessions, n \in Usernames : FollowersList(s, n)
    \/ \E s \in Sessions, n \in {Ann, Bob} : FollowingList(s, n)
    \/ \E form \in PrivacyForms("s2") : ProfileEdit("profile_edit", "s2", form)

SpecGraph == InitSocial /\ [][NextGraph]_vars

---------------------------------------------------------------------------
(* Requests of the notification run: follows and unfollows at different
   times, and views of the notification list *)

\* notification rows the notification run may insert
MaxNotifyRows == 3

\* the last minute of the runs with a clock
MaxTime == 45

NextNotify ==
    \/ \E s \in Members, n \in {Ann, Bob} : FollowUser(s, n, MaxNotifyRows)
    \/ \E s \in Members, n \in {Ann, Bob} : UnfollowUser(s, n, MaxNotifyRows)
    \/ \E s \in Sessions : Notifications(s)
    \/ Tick(MaxTime)

SpecNotify == InitSocial /\ [][NextNotify]_vars

---------------------------------------------------------------------------
(* Requests of the token run: an anonymous visitor asks for reset links and
   follows them while time passes *)

ZedMail == <<"z","@","x",".","i","o">>

NewPassword == <<"N","e","w","p","a","s","s","1">>

ForgotForms ==
    { [email |-> <<" ","A","@","x",".","i","o">>],
      [email |-> ZedMail],
      [email |-> Ann] }

ResetForms ==
    { [password |-> NewPassword, confirm_password |-> NewPassword],
      [password |-> GoodPassword, confirm_password |-> GoodPassword],
      [password |-> NewPassword, confirm_password |-> GoodPassword],
      [password |-> Ann, confirm_password |-> Ann] }

\* reset links the token run may hand out
MaxIssued == 2

\* the raw tokens a visitor may try: every link handed out, and one that
\* never was
KnownTokens == {generate_token(n) : n \in 0..issued}

NextTokens ==
    \/ \E form \in ForgotForms : ForgotPassword("s3", form, MaxIssued)
    \/ \E token \in KnownTokens : ResetPassword("s3", "GET", token, EmptyDict)
    \/ \E token \in KnownTokens, form \in ResetForms :
           ResetPassword("s3", "POST", token, form)
    \/ Tick(MaxTime)

SpecTokens == InitSocial /\ [][NextTokens]_vars

---------------------------------------------------------------------------
(* Requests of the birthday run: step 4 of the wizard on different days,
   with dates of birth around the thirteenth birthday *)

Date(y, m, d) == [y |-> y, m |-> m, d |-> d]

\* the days on which the requests are made
Todays ==
    { Today, Date(2028, 2, 29), Date(2028, 2, 28), Date(2028, 3, 1),
      Date(2029, 2, 28), Date(2029, 3, 1), Date(2027, 1, 1), Date(2026, 12, 31) }

IsCalendarDate(date) ==
    date.m \in 1..12 /\ date.d >= 1 /\ date.d <= DaysInMonth(date.y, date.m)

NextDay(date) ==
    IF date.d < DaysInMonth(date.y, date.m) THEN Date(date.y, date.m, date.d + 1)
    ELSE IF date.m < 12 THEN Date(date.y, date.m + 1, 1)
    ELSE Date(date.y + 1, 1, 1)

PrevDay(date) ==
    IF date.d > 1 THEN Date(date.y, date.m, date.d - 1)
    ELSE IF date.m > 1 THEN Date(date.y, date.m - 1, DaysInMonth(date.y, date.m - 1))
    ELSE Date(date.y - 1, 12, 31)

\* the same month and day 13 years before: not a calendar date when `date`
\* is a 29 February
YearsBefore(date, years) == Date(date.y - years, date.m, date.d)

\* the dates typed into the form: around the thirteenth birthday of each
\* day, 29 February of a leap year among them, and "29 February" where
\* there is none
DobDates ==
    UNION { LET exact == YearsBefore(t, MinAge)
            IN  { exact, Date(exact.y, 2, 28), Date(exact.y, 3, 1),
                  Date(exact.y - 1, exact.m, exact.d),
                  Date(exact.y + 1, exact.m, exact.d) }
                \cup (IF IsCalendarDate(exact)
                      THEN {NextDay(exact), PrevDay(exact)} ELSE {})
          : t \in Todays }
    \cup { Date(2016, 2, 29), Date(2012, 2, 29) }

\* "%04d" and "%02d"
Digits(n, width) ==
    [i \in 1..width |-> DigitChars[((n \div (10 ^ (width - i))) % 10) + 1]]

\* date.isoformat(): what the browser's date field submits
FormatDate(date) ==
    Digits(date.y, 4) \o <<"-">> \o Digits(date.m, 2) \o <<"-">> \o Digits(date.d, 2)

AgeForm(date) ==
    [step |-> <<"4">>, age |-> <<"1","3">>, date_of_birth |-> FormatDate(date)]

AgeForms == {AgeForm(date) : date \in DobDates}

InitAge ==
    /\ users = {}
    /\ sessions = [s \in Sessions |-> ClearedSession]
    /\ follows = {}
    /\ messages = {}
    /\ notifications = {}
    /\ tokens = {}
    /\ createdCount = 0
    /\ now = 0
    /\ date_today \in Todays
    /\ issued = 0
    /\ inflight = {}
    /\ last = NoRequest

NextAge ==
    \/ \E form \in AgeForms : RegisterPost("s1", form, MaxCreated)
    \/ RegisterGet("s1")

SpecAge == InitAge /\ [][NextAge]_vars

---------------------------------------------------------------------------
(* Requests of the names run: step 1 of the wizard with usernames and display
   names around the limits, while ann and bob may or may not be registered *)

CharTimes(c, n) == [i \in 1..n |-> c]

NameTexts ==
    { Ann,
      <<"A","n","n">>,
      <<" ">> \o Bob \o <<" ">>,
      Bob \o <<"\n">>,
      <<"a","!","b">>,
      <<"a"," ","b">>,
      <<"a","_","1">>,
      <<"a","b">>,
      CharTimes("z", UsernameMaxLen),
      CharTimes("z", UsernameMaxLen + 1),
      <<>> }

DisplayTexts ==
    { <<"A","n","n">>,
      <<"A">>,
      <<" ","B","o","\t">>,
      <<" ","B"," ">>,
      CharTimes("d", DisplayNameMaxLen),
      CharTimes("d", DisplayNameMaxLen + 1) }

NameForm(username, display_name) ==
    [step |-> <<"1">>, username |-> username, display_name |-> display_name]

\* the last two forms leave a field out
NameForms ==
    {NameForm(n, d) : n \in NameTexts, d \in DisplayTexts}
    \cup { [step |-> <<"1">>, display_name |-> <<"A","n","n">>],
           [step |-> <<"1">>, username |-> Zed] }

PersistedUsers ==
    { RegisteredUser(1, Ann, AnnMail, <<"A","n","n">>),
      RegisteredUser(2, Bob, BobMail, <<"B","o","b">>) }

InitNames ==
    /\ users \in SUBSET PersistedUsers
    /\ sessions = [s \in Sessions |-> ClearedSession]
    /\ follows = {}
    /\ messages = {}
    /\ notifications = {}
    /\ tokens = {}
    /\ createdCount = 2
    /\ now = 0
    /\ date_today = Today
    /\ issued = 0
    /\ inflight = {}
    /\ last = NoRequest

NextNames ==
    \/ \E form \in NameForms : RegisterPost("s1", form, MaxCreatedUsers)
    \/ RegisterGet("s1")

SpecNames == InitNames /\ [][NextNames]_vars

---------------------------------------------------------------------------
(* Requests of the privacy run: one browser registers ann and then submits
   the profile form of /profile/edit and /profile/setup with the privacy
   field set, padded, empty or left out *)

PrivacyTexts ==
    { Public, Private, <<>>, <<" ">>, <<" ">> \o Private \o <<" ">>,
      <<"f","r","i","e","n","d","s">> }

ProfileForm(display_name) ==
    [display_name |-> display_name, bio |-> <<>>, website |-> <<>>]

\* the last form carries no privacy field
PrivacyEditForms ==
    {Merge(ProfileForm(<<"A","n","n">>), [privacy |-> p]) : p \in PrivacyTexts}
    \cup {Merge(ProfileForm(<<"A","n">>), [privacy |-> p]) : p \in {Public, Private}}
    \cup {ProfileForm(<<"A","n","n">>)}

EditPages == {"profile_edit", "profile_setup"}

NextPrivacy ==
    \/ \E form \in AccountForms("s1") : RegisterPost("s1", form, MaxCreated)
    \/ \E op \in EditPages : \E form \in PrivacyEditForms : ProfileEdit(op, "s1", form)
    \/ Logout("s1")

SpecPrivacy == Init /\ [][NextPrivacy]_vars

---------------------------------------------------------------------------
(* Requests of the draft run: the wizard's forms, each sent with a password
   field whatever its step *)

WithPassword(form) ==
    IF "password" \in DOMAIN form THEN form
    ELSE Merge(form, [password |-> GoodPassword])

DraftForms == {WithPassword(form) : form \in PageForms \cup SteplessForms}

NextDraft ==
    \/ \E form \in DraftForms : RegisterPost("s1", form, MaxCreated)
    \/ RegisterGet("s1")

SpecDraft == Init /\ [][NextDraft]_vars

---------------------------------------------------------------------------
(* Requests of the deletion run: ann and bob follow and message each other,
   reset links are requested, and either of them deletes the account *)

NextCascade ==
    \/ \E s \in Members, n \in {Ann, Bob} : FollowUser(s, n, MaxNotifications)
    \/ \E s \in Members, n \in {Ann, Bob}, form \in MessageForms :
           MessageUser(s, n, form, MaxMessages)
    \/ \E form \in ForgotForms : ForgotPassword("s3", form, MaxIssued)
    \/ \E s \in Members : \E form \in DeleteForms : DeleteAccount(s, form)

SpecCascade == InitSocial /\ [][NextCascade]_vars

---------------------------------------------------------------------------
(* Requests of the frame run: reset links for ann are requested and used at
   different times while ann, logged in, changes her password *)

ChangeForms ==
    { [old_password |-> GoodPassword, new_password |-> NewPassword,
       confirm_password |-> NewPassword],
      [old_password |-> NewPassword, new_password |-> GoodPassword,
       confirm_password |-> GoodPassword],
      [old_password |-> GoodPassword, new_password |-> Ann,
       confirm_password |-> Ann],
      [new_password |-> NewPassword, confirm_password |-> GoodPassword] }

NextFrame ==
    \/ \E form \in ForgotForms : ForgotPassword("s3", form, MaxIssued)
    \/ \E token \in KnownTokens, form \in ResetForms :
           ResetPassword("s3", "POST", token, form)
    \/ \E s \in {"s1", "s3"}, form \in ChangeForms : ChangePassword(s, form)
    \/ Tick(MaxTime)

SpecFrame == InitSocial /\ [][NextFrame]_vars

---------------------------------------------------------------------------
(* Claims about the wizard, checked under Spec *)

\* the draft of session s as a request finds it
DraftOf(s) == IF sessions[s].reg.present THEN sessions[s].reg.data ELSE EmptyDict

StepFields(step) ==
    CASE step = 1 -> {"username", "display_name"}
      [] step = 2 -> {"email"}
      [] step = 3 -> {"password_hash"}
      [] step = 4 -> {"age", "date_of_birth"}
      [] OTHER -> {}

\* the values `data` holds for the fields of `step` are values that pass the
\* step's validation and, at steps 1 and 2, the uniqueness pre-check
StepFieldsValid(step, data, rows) ==
    CASE step = 1 ->
            /\ USERNAME_RE(data["username"])
            /\ data["username"] = PyStrip(data["username"])
            /\ Len(data["display_name"]) \in 2..40
            /\ \A u \in rows : u.username # data["username"]
      [] step = 2 ->
            /\ EMAIL_RE(data["email"])
            /\ data["email"] = PyLower(data["email"])
            /\ \A u \in rows : u.email # data["email"]
      [] step = 3 ->
            /\ Head(data["password_hash"]) = "pbkdf2:"
            /\ PasswordOk(Tail(data["password_hash"]))
      [] step = 4 ->
            /\ IsDigitStr(data["age"])
            /\ DigitsToInt(data["age"]) >= 13
            /\ Strptime(PyStrip(data["date_of_birth"])).ok
            /\ _calculate_age(Strptime(PyStrip(data["date_of_birth"])), Today) >= 13
      [] OTHER -> TRUE

\* C1: a valid "next" at step s in 1..4 writes that step's validated fields
\* into the draft, keeps every other draft field, stores step min(5, s+1)
\* and touches no user row.
C1_NextMergesStepFields ==
    [][ (last'.op = "register" /\ last'.outcome = "advanced" /\ last'.step \in 1..4)
        => LET s == last'.sess
               after == sessions'[s].reg
           IN  /\ after.present
               /\ after.step = (IF last'.step + 1 > 5 THEN 5 ELSE last'.step + 1)
               /\ DOMAIN after.data = DOMAIN DraftOf(s) \cup StepFields(last'.step)
               /\ \A k \in DOMAIN DraftOf(s) \ StepFields(last'.step) :
                      after.data[k] = DraftOf(s)[k]
               /\ StepFieldsValid(last'.step, after.data, users)
               /\ users' = users ]_vars

\* a valid step 4 arrived on a draft that held the fields of steps 1..3, after
\* a step 1 whose username was sent with surrounding blanks
C1_Witness ==
    /\ last.op = "register" /\ last.outcome = "advanced" /\ last.step = 4
    /\ sessions["s1"].reg.step = 5
    /\ DOMAIN sessions["s1"].reg.data =
          {"username", "display_name", "email", "password_hash", "age", "date_of_birth"}
    /\ sessions["s1"].reg.data["username"] = Bob

\* C2 as claimed: a "next" that fails validation leaves the stored step and
\* the draft as they were, returns errors and creates no user row.
C2_FailedNextKeepsStoredStep ==
    [][ (last'.op = "register" /\ last'.outcome = "errors")
        => LET s == last'.sess
           IN  /\ sessions'[s].reg.step = CurrentReg(s).step
               /\ sessions'[s].reg.data = DraftOf(s)
               /\ last'.errors # {}
               /\ users' = users ]_vars

\* C2 amended: a "next" that fails validation leaves the wizard on the step
\* the request was submitted for (one of 1..5), keeps the draft, returns
\* errors keyed by form fields and creates no user row.
C2_FailedNextStaysOnSubmittedStep ==
    [][ (last'.op = "register" /\ last'.outcome = "errors")
        => LET s == last'.sess
           IN  /\ last'.step \in 1..5
               /\ sessions'[s].reg.present
               /\ sessions'[s].reg.step = last'.step
               /\ sessions'[s].reg.data = DraftOf(s)
               /\ last'.errors # {}
               /\ last'.errors \subseteq
                      {"username", "display_name", "email", "password", "age",
                       "date_of_birth", "profile_picture"}
               /\ last'.response = "register.html"
               /\ users' = users ]_vars

\* a failed step 4 on a draft that already holds the fields of steps 1 and 2
C2_Witness ==
    /\ last.op = "register" /\ last.outcome = "errors" /\ last.step = 4
    /\ last.errors = {"age", "date_of_birth"}
    /\ sessions["s1"].reg.step = 4
    /\ DOMAIN sessions["s1"].reg.data = {"username", "display_name", "email"}

\* C3 as claimed: the stored wizard step is always one of 1..5.
C3_StoredStepInRange ==
    \A s \in Sessions : sessions[s].reg.present => sessions[s].reg.step \in 1..5

\* C4: "back" stores max(1, step-1), reports no validation error and keeps
\* the draft.
C4_BackKeepsDraft ==
    [][ (last'.op = "register" /\ last'.outcome = "back")
        => LET s == last'.sess
           IN  /\ sessions'[s].reg.present
               /\ sessions'[s].reg.step =
                      (IF last'.step - 1 < 1 THEN 1 ELSE last'.step - 1)
               /\ sessions'[s].reg.data = DraftOf(s)
               /\ last'.errors = {}
               /\ users' = users ]_vars

\* "back" from step 1 stayed on step 1 with the fields of steps 1..4 in the draft
C4_Witness ==
    /\ last.op = "register" /\ last.outcome = "back" /\ last.step = 1
    /\ sessions["s1"].reg.step = 1
    /\ {"username", "email", "password_hash", "date_of_birth"}
          \subseteq DOMAIN sessions["s1"].reg.data

\* the outcomes of a "next" handled at step 5
Step5Outcomes == {"errors", "reset", "rewind", "integrity_error", "committed"}

\* C5 as claimed: every step-5 "next" on a draft with a required field
\* missing creates no user row and resets the wizard.
C5_MissingFieldsAlwaysReset ==
    [][ (/\ last'.op = "register" /\ last'.step = 5
         /\ last'.outcome \in Step5Outcomes
         /\ MissingRequired(DraftOf(last'.sess)))
        => /\ users' = users
           /\ sessions'[last'.sess].reg =
                  [present |-> TRUE, step |-> 1, data |-> EmptyDict] ]_vars

\* C5 amended: a step-5 "next" whose picture passes the step-5 validation, on
\* a draft with a required field missing, creates no user row, resets the
\* wizard to step 1 with an empty draft and redirects to the wizard.
C5_MissingFieldsReset ==
    [][ (/\ last'.op = "register" /\ last'.step = 5
         /\ last'.outcome \in Step5Outcomes \ {"errors"}
         /\ MissingRequired(DraftOf(last'.sess)))
        => /\ last'.outcome = "reset"
           /\ last'.response = "redirect:register"
           /\ users' = users
           /\ createdCount' = createdCount
           /\ sessions'[last'.sess].reg =
                  [present |-> TRUE, step |-> 1, data |-> EmptyDict] ]_vars

\* the reset happened (the draft held fields before it: the request before
\* was not a GET of a fresh wizard)
C5_Witness ==
    /\ last.op = "register" /\ last.outcome = "reset"
    /\ sessions["s1"].reg = [present |-> TRUE, step |-> 1, data |-> EmptyDict]
    /\ users = {}

\* C6: a commit inserts one user row built from the draft, logs the session
\* in as that row's id, drops the wizard state and redirects to profile setup.
C6_CommitCreatesUserAndLogsIn ==
    [][ (last'.op = "register" /\ last'.outcome = "committed")
        => LET s == last'.sess
               draft == DraftOf(s)
           IN  /\ \E u \in users' :
                     /\ users' = users \cup {u}
                     /\ \A v \in users : v.id # u.id
                     /\ u.id = last'.uid
                     /\ u.username = draft["username"]
                     /\ u.email = draft["email"]
                     /\ u.password_hash = draft["password_hash"]
                     /\ u.display_name = draft["display_name"]
                     /\ Strptime(draft["date_of_birth"]).ok
                     /\ u.date_of_birth.y = Strptime(draft["date_of_birth"]).y
                     /\ u.date_of_birth.m = Strptime(draft["date_of_birth"]).m
                     /\ u.date_of_birth.d = Strptime(draft["date_of_birth"]).d
                     /\ sessions'[s].user_id = u.id
               /\ ~sessions'[s].reg.present
               /\ sessions'[s].reg.data = EmptyDict
               /\ last'.response = "redirect:profile_setup" ]_vars

C6_Witness ==
    /\ last.op = "register" /\ last.outcome = "committed"
    /\ sessions["s1"].user_id = last.uid
    /\ ~sessions["s1"].reg.present
    /\ \E u \in users : u.id = last.uid /\ u.username = Bob /\ u.email = BobMail

---------------------------------------------------------------------------
(* Claims about the user table, checked under SpecUsers *)

\* C7 as claimed: the user a commit creates is admin exactly when it is the
\* first user row ever inserted.
C7_AdminIffFirstEver ==
    (last.op = "register" /\ last.outcome = "committed")
    => \A u \in users : u.id = last.uid => (u.is_admin <=> createdCount = 1)

\* C8: no two user rows share a username and no two share an email.
C8_UniqueUsernameAndEmail ==
    \A a, b \in users :
        a # b => a.username # b.username /\ a.email # b.email

\* a commit lost the race: its draft had passed the pre-checks, and by the
\* time of its insert another row held the username or the email
C8_Witness ==
    /\ last.op = "register" /\ last.outcome = "integrity_error"
    /\ \E u \in users :
           \/ u.username = sessions[last.sess].reg.data["username"]
           \/ u.email = sessions[last.sess].reg.data["email"]


---------------------------------------------------------------------------
(* Claims about messaging, checked under SpecSocial *)

\* the target is public, or both Follow edges viewer->target and
\* target->viewer exist
PublicOrMutual(viewer, target) ==
    \/ target.privacy = Public
    \/ /\ \E f \in follows : f.follower_id = viewer /\ f.followed_id = target.id
       /\ \E f \in follows : f.follower_id = target.id /\ f.followed_id = viewer

UserWithId(id) == CHOOSE u \in users : u.id = id

\* the can_message values of the search view and of the message action in
\* the last response, each equal to PublicOrMutual for its viewer and target
SearchAndActionCanMessage ==
    /\ (last.op = "search" /\ last.outcome = "ok") =>
           \A id \in DOMAIN last.view.message_map :
               last.view.message_map[id]
                   <=> PublicOrMutual(Me(last.sess), UserWithId(id))
    /\ (last.op = "message" /\ "can_message" \in DOMAIN last.view) =>
           (last.view.can_message
                <=> PublicOrMutual(Me(last.sess), UserWithId(last.view.target)))

MessageAccepted(sender, receiver, form) ==
    /\ sender # receiver.id
    /\ PublicOrMutual(sender, receiver)
    /\ Len(PyStrip(GetOrEmpty(form, "message"))) \in 1..MaxMessageLen

\* C10: the message action of a logged-in sender to an existing receiver
\* adds a Message row (sender, receiver, trimmed body) if and only if the
\* sender is not the receiver, the receiver is public or mutually following
\* with the sender at the time of the request, and the trimmed body has
\* between 1 and 500 characters; otherwise it adds none.  Every persisted
\* Message has sender # receiver and a body of 1..500 characters.
C10_MessagePersistedIff ==
    /\ [](\A m \in messages :
              m.sender_id # m.receiver_id /\ Len(m.body) \in 1..MaxMessageLen)
    /\ [][ (last'.op = "message"
                /\ last'.outcome \notin {"login_required", "not_found"}) =>
             IF MessageAccepted(Me(last'.sess), UserWithId(last'.view.target),
                                last'.view.form)
             THEN \E m \in messages' \ messages :
                      /\ messages' = messages \cup {m}
                      /\ m.sender_id = Me(last'.sess)
                      /\ m.receiver_id = last'.view.target
                      /\ m.body = PyStrip(last'.view.form["message"])
             ELSE messages' = messages ]_vars

\* a body of exactly 500 characters after trimming is sent to a private
\* receiver who follows the sender back
C10_Witness ==
    /\ last.op = "message" /\ last.outcome = "sent"
    /\ UserWithId(last.view.target).privacy = Private
    /\ Len(last.view.form["message"]) > MaxMessageLen
    /\ \E m \in messages : m.id = last.uid /\ Len(m.body) = MaxMessageLen

---------------------------------------------------------------------------
(* Claims about the follow graph, checked under SpecGraph *)

\* C11: a logged-in viewer is shown a target's followers or following list
\* if and only if the target's privacy is public or the viewer is the
\* target; a viewer who mutually follows a private target is refused.
C11_ConnectionsShownIffPublicOrOwner ==
    (last.op \in {"followers", "following"} /\ last.outcome \in {"shown", "private"}) =>
        /\ Me(last.sess) # 0
        /\ (last.outcome = "shown")
               <=> \/ UserWithId(last.view.target).privacy = Public
                   \/ Me(last.sess) = last.view.target

\* a viewer who follows a private target and is followed back is refused
\* the target's list
C11_Witness ==
    /\ last.op \in {"followers", "following"} /\ last.outcome = "private"
    /\ UserWithId(last.view.target).privacy = Private
    /\ HasFollow(Me(last.sess), last.view.target)
    /\ HasFollow(last.view.target, Me(last.sess))

\* C12: no Follow edge has follower_id equal to followed_id, and a follow
\* request by a user on their own username inserts neither an edge nor a
\* notification.
C12_NoSelfFollow ==
    [][ /\ \A f \in follows \cup follows' : f.follower_id # f.followed_id
        /\ (last'.op = "follow" /\ "target" \in DOMAIN last'.view
                /\ last'.view.target = Me(last'.sess)) =>
             (follows' = follows /\ notifications' = notifications) ]_vars

\* a user's follow request on their own username was rejected while the
\* graph already held an edge
C12_Witness ==
    /\ last.op = "follow" /\ last.outcome = "self"
    /\ last.view.target = Me(last.sess)
    /\ follows # {}

\* C13 as stated: at most one Follow edge for each ordered pair (follower,
\* followed), also when two follow requests for the same pair interleave
\* their existence check and insert.
C13_OneEdgePerPair ==
    \A f, g \in follows :
        (f.follower_id = g.follower_id /\ f.followed_id = g.followed_id) => f = g

\* the Follow rows from follower a to followed b
EdgesFromTo(rows, a, b) == {f \in rows : f.follower_id = a /\ f.followed_id = b}

\* C14: a follow or unfollow request by A on B that changes the A->B edge
\* adds exactly one notification for B, of type follow when the edge is
\* inserted and unfollow when it is removed; a request that changes nothing
\* adds none; after an unfollow request there is no A->B edge.
C14_OneNotificationPerTransition ==
    [][ /\ follows' = follows => notifications' = notifications
        /\ follows' # follows =>
               LET a == Me(last'.sess)
                   b == last'.view.target
               IN  /\ last'.op \in {"follow", "unfollow"}
                   /\ \E n \in notifications' \ notifications :
                          /\ notifications' = notifications \cup {n}
                          /\ n.user_id = b
                          /\ n.type = last'.op
                          /\ ~n.read
                   /\ last'.op = "follow" =>
                          \E f \in follows' \ follows :
                              /\ follows' = follows \cup {f}
                              /\ f.follower_id = a /\ f.followed_id = b
                   /\ last'.op = "unfollow" =>
                          /\ EdgesFromTo(follows, a, b) # {}
                          /\ follows' = follows \ EdgesFromTo(follows, a, b)
        /\ (last'.op = "unfollow" /\ "target" \in DOMAIN last'.view) =>
               EdgesFromTo(follows', Me(last'.sess), last'.view.target) = {}
      ]_vars

\* ann followed bob and then unfollowed: no ann->bob edge is left and bob
\* has one notification of each type
C14_Witness ==
    /\ last.op = "unfollow" /\ last.outcome = "unfollowed"
    /\ EdgesFromTo(follows, Me(last.sess), last.view.target) = {}
    /\ {n.type : n \in {m \in notifications : m.user_id = last.view.target}}
           = {"follow", "unfollow"}

---------------------------------------------------------------------------
(* Claims about the notification list, checked under SpecNotify *)

\* C15: viewing the notification list returns all of the viewer's
\* notifications ordered newest first and marks every one of the viewer's
\* notifications as read, so that the viewer's unread count is zero
\* afterwards; the notifications of other users are not changed.
C15_ViewMarksOwnNotificationsRead ==
    [][ (now' = now /\ last'.op = "notifications" /\ last'.outcome = "ok") =>
          LET me == Me(last'.sess)
              items == last'.view.items
              mine == {n \in notifications : n.user_id = me}
              Row(id) == CHOOSE n \in notifications : n.id = id
          IN  /\ {items[i] : i \in DOMAIN items} = {n.id : n \in mine}
              /\ Len(items) = Cardinality(mine)
              /\ \A i, j \in DOMAIN items :
                     i < j => Row(items[i]).created_at >= Row(items[j]).created_at
              /\ {n.id : n \in notifications'} = {n.id : n \in notifications}
              /\ \A n \in notifications' :
                     IF n.user_id = me
                     THEN n.read /\ [n EXCEPT !.read = Row(n.id).read] = Row(n.id)
                     ELSE n = Row(n.id)
              /\ last'.view.notification_count = 0
      ]_vars

\* the viewer saw two notifications made at different times, at least one
\* of them unread before, while another user's unread notification stays
\* unread
C15_Witness ==
    /\ last.op = "notifications" /\ last.outcome = "ok"
    /\ Len(last.view.items) = 2
    /\ \E n, m \in notifications :
           /\ n.id = last.view.items[1] /\ m.id = last.view.items[2]
           /\ n.created_at > m.created_at
    /\ \E n \in notifications : n.user_id # Me(last.sess) /\ ~n.read

---------------------------------------------------------------------------
(* Claims about password reset tokens, checked under SpecTokens *)

\* the step is a request to `op`, not the passing of time
RequestTo(op) == now' = now /\ last'.op = op

\* the records of raw token `token` that are unused and not past 30 minutes
\* after their creation at time t
UnusedAndInTime(rows, token, t) ==
    {r \in rows : /\ r.token_hash = hash_token(token)
                  /\ r.used_at = NullTime
                  /\ t <= r.created_at + TokenLifetime}

\* C16: a token record is valid at time t if and only if its used_at is
\* null and t <= expires_at, with expires_at 30 minutes after the record's
\* creation; the reset endpoint refuses a token whose record is missing or
\* not valid, and changes nothing then.
C16_TokenValidIffUnusedAndInTime ==
    /\ [](\A r \in tokens : r.expires_at = r.created_at + TokenLifetime)
    /\ [][ RequestTo("reset_password") =>
             /\ (last'.outcome = "invalid")
                    <=> UnusedAndInTime(tokens, last'.view.token, now) = {}
             /\ last'.outcome = "invalid" => (users' = users /\ tokens' = tokens)
         ]_vars

\* a reset succeeded at the very minute its token expires
C16_Witness ==
    /\ last.op = "reset_password" /\ last.outcome = "updated"
    /\ \E r \in tokens :
           /\ r.token_hash = hash_token(last.view.token)
           /\ r.expires_at = now
           /\ r.used_at = now

\* C17: a successful reset marks its token used, a used token stays used,
\* and every request (GET or POST) to the reset endpoint with a raw token
\* whose reset has succeeded is rejected as invalid and leaves the user
\* rows, the passwords among them, as they were.
C17_TokenAcceptedOnce ==
    [][ /\ (RequestTo("reset_password") /\ last'.outcome = "updated") =>
               /\ TokenRecords(tokens', last'.view.token) # {}
               /\ \A r \in TokenRecords(tokens', last'.view.token) :
                      r.used_at # NullTime
        /\ \A r \in tokens : r.used_at # NullTime => r \in tokens'
        /\ (/\ RequestTo("reset_password")
            /\ \E r \in TokenRecords(tokens, last'.view.token) : r.used_at # NullTime)
               => (last'.outcome = "invalid" /\ users' = users)
      ]_vars

\* inside the 30 minutes, a second POST with the used token and another,
\* well-formed password was rejected
C17_Witness ==
    /\ last.op = "reset_password" /\ last.outcome = "invalid"
    /\ last.view.method = "POST"
    /\ validate_reset_password(last.view.form) = {}
    /\ \E r \in TokenRecords(tokens, last.view.token) :
           /\ r.used_at # NullTime
           /\ now <= r.expires_at
           /\ \E u \in users :
                  /\ u.id = r.user_id
                  /\ ~check_password_hash(u.password_hash, last.view.form["password"])

\* C18: a forgot-password request with a syntactically valid email gets the
\* same response (the same page, a success notice and a fresh reset link)
\* whether or not a user has that email; with a user the link's record is
\* persisted, without one no row is persisted, and the reset endpoint
\* rejects every token that has no record.
C18_ForgotPasswordSameShape ==
    [][ /\ (RequestTo("forgot_password") /\ last'.errors = {}) =>
               LET email == PyLower(PyStrip(last'.view.form["email"]))
                   link == last'.view.reset_link
               IN  /\ last'.response = "forgot_password.html"
                   /\ last'.outcome = "link"
                   /\ DOMAIN last'.view = {"form", "reset_link", "flash"}
                   /\ last'.view.flash = "success"
                   /\ link = generate_token(issued + 1)
                   /\ TokenRecords(tokens, link) = {}
                   /\ IF \E u \in users : u.email = email
                      THEN \E r \in tokens' \ tokens :
                               /\ tokens' = tokens \cup {r}
                               /\ r.token_hash = hash_token(link)
                               /\ \E u \in users : u.email = email /\ u.id = r.user_id
                      ELSE tokens' = tokens
        /\ (RequestTo("reset_password") /\ TokenRecords(tokens, last'.view.token) = {})
               => (last'.outcome = "invalid" /\ users' = users /\ tokens' = tokens)
      ]_vars

\* the link handed out for an email nobody has was followed and rejected
C18_Witness ==
    /\ last.op = "reset_password" /\ last.outcome = "invalid"
    /\ last.view.token \in {generate_token(n) : n \in 1..issued}
    /\ TokenRecords(tokens, last.view.token) = {}

---------------------------------------------------------------------------
(* Claims about the date-of-birth check, checked under SpecAge *)

\* the thirteenth birthday of `date` is on or before `today`, by comparison
\* of year, then month, then day
ThirteenBy(date, today) ==
    \/ date.y + MinAge < today.y
    \/ date.y + MinAge = today.y /\ date.m < today.m
    \/ date.y + MinAge = today.y /\ date.m = today.m /\ date.d <= today.d

\* C19: the date-of-birth check of step 4 accepts a date exactly when the
\* age computed on today's date by year/month/day comparison is at least
\* 13: the date exactly 13 years before today is accepted and the day after
\* it is rejected, for every today, also around 29 February.
C19_AgeBoundary ==
    [][ \A date \in DobDates :
          RegisterPost("s1", AgeForm(date), MaxCreated) =>
            LET accepted == "date_of_birth" \notin last'.errors
                exact == YearsBefore(date_today, MinAge)
            IN  /\ accepted <=> (IsCalendarDate(date) /\ ThirteenBy(date, date_today))
                /\ (IsCalendarDate(exact) /\ date = exact) => accepted
                /\ (IsCalendarDate(exact) /\ date = NextDay(exact)) => ~accepted
                /\ accepted =>
                       /\ last'.outcome = "advanced"
                       /\ sessions'["s1"].reg.data["date_of_birth"] = FormatDate(date)
      ]_vars

\* on 28 February 2029 a birthday of 29 February 2016, one day short of 13
\* years, was rejected
C19_Witness ==
    /\ date_today = Date(2029, 2, 28)
    /\ last.op = "register" /\ last.step = 4
    /\ last.errors = {"date_of_birth"}

---------------------------------------------------------------------------
(* Claims about the username check, checked under SpecNames *)

\* ^[A-Za-z0-9_]{3,20}$ read as: 3 to 20 characters, each a letter, a digit
\* or an underscore
MatchesUsernamePattern(text) ==
    /\ Len(text) \in 3..20
    /\ \A i \in 1..Len(text) :
           \/ \E k \in 1..26 : text[i] \in {UpperChars[k], LowerChars[k]}
           \/ \E k \in 1..10 : text[i] = DigitChars[k]
           \/ text[i] = "_"

\* the request that has just been answered was a "next" of step 1
Step1Answered ==
    /\ last'.op = "register" /\ last'.step = 1
    /\ last'.outcome \in {"advanced", "errors"}

\* C20 as stated: step 1 succeeds for every submitted username that matches
\* ^[A-Za-z0-9_]{3,20}$ and is not used by a persisted user, and fails for
\* any other submitted value.
C20_Step1SucceedsIffUsernameMatches ==
    [][ Step1Answered =>
          \A form \in NameForms :
              RegisterPost("s1", form, MaxCreatedUsers) =>
                  (last'.outcome = "advanced" <=>
                      LET username == GetOrEmpty(form, "username")
                      IN  /\ MatchesUsernamePattern(username)
                          /\ \A u \in users : u.username # username)
      ]_vars

\* C20 (amended): step 1 succeeds exactly when the submitted username with
\* the whitespace around it removed matches ^[A-Za-z0-9_]{3,20}$ and is the
\* username of no persisted user, and the submitted display name with the
\* whitespace around it removed has 2 to 40 characters; it then stores the
\* trimmed username in the draft.
C20_Step1SucceedsIffTrimmedNamesValid ==
    [][ Step1Answered =>
          \A form \in NameForms :
              RegisterPost("s1", form, MaxCreatedUsers) =>
                  LET username == PyStrip(GetOrEmpty(form, "username"))
                      display_name == PyStrip(GetOrEmpty(form, "display_name"))
                      succeeds == last'.outcome = "advanced"
                  IN  /\ succeeds <=>
                             /\ MatchesUsernamePattern(username)
                             /\ \A u \in users : u.username # username
                             /\ Len(display_name) \in 2..40
                      /\ succeeds =>
                             sessions'["s1"].reg.data["username"] = username
      ]_vars

\* a username typed with spaces around it passed step 1 while bob was not
\* registered, and the draft holds it without the spaces
C20_Witness ==
    /\ last.op = "register" /\ last.step = 1 /\ last.outcome = "advanced"
    /\ sessions["s1"].reg.data["username"] = Bob
    /\ sessions["s1"].reg.data["display_name"] = <<"B","o">>
    /\ \A u \in users : u.username # Bob

---------------------------------------------------------------------------
(* Claims about the privacy flag, checked under SpecPrivacy *)

\* C21: in every reachable state each persisted user's privacy flag is
\* exactly "public" or "private", after any sequence of registrations and
\* profile edit/setup submissions, also those that omit the privacy field or
\* send it empty.
C21_PrivacyIsPublicOrPrivate ==
    \A u \in users : u.privacy \in {Public, Private}

---------------------------------------------------------------------------
(* Claims about commits that lose the race, checked under SpecUsers *)

\* the draft of session s is complete and another row already holds its
\* username or its email: both sessions passed the pre-check, the other one
\* committed first
DraftCollides(s) ==
    /\ ~MissingRequired(CurrentReg(s).data)
    /\ \E u \in users :
           \/ u.username = CurrentReg(s).data["username"]
           \/ u.email = CurrentReg(s).data["email"]

\* C22: when two wizard sessions have both passed the uniqueness pre-check
\* for the same username or email and both commit at step 5, the losing
\* commit is answered with a handled failure (a page or a redirect), never
\* with an unhandled exception, and creates no User row.
C22_LosingCommitIsHandled ==
    [][ \A s \in {"s1", "s2"} :
          ( /\ DraftCollides(s)
            /\ last'.op = "register" /\ last'.sess = s /\ last'.step = 5
            /\ last'.outcome \notin {"get", "back", "errors"} )
          => (last'.response # "exception" /\ users' = users) ]_vars

---------------------------------------------------------------------------
(* Claims about the password in the draft, checked under SpecDraft *)

SubmittedPasswords == {form["password"] : form \in DraftForms}

\* C23: the wizard draft held in the session never contains a raw password:
\* a request of any step leaves no "password" key and no value equal to the
\* password it submitted in the draft, and an accepted step 3 changes the
\* draft by password_hash alone, set to the hash of the submitted password.
C23_DraftHoldsNoRawPassword ==
    [][ \A form \in DraftForms :
          RegisterPost("s1", form, MaxCreated) =>
            LET before == sessions["s1"].reg.data
                after == sessions'["s1"].reg.data
                password == form["password"]
            IN  /\ "password" \notin DOMAIN after
                /\ \A k \in DOMAIN after : after[k] \notin SubmittedPasswords
                /\ (last'.step = 3 /\ last'.outcome = "advanced") =>
                       /\ after = Merge(before,
                              [password_hash |-> generate_password_hash(password)])
                       /\ after["password_hash"] # password
      ]_vars

\* step 3 accepted a password and the draft holds its hash, and a later
\* request of another step that also carried the password was accepted
C23_Witness ==
    /\ last.op = "register" /\ last.step = 4 /\ last.outcome = "advanced"
    /\ "password_hash" \in DOMAIN sessions["s1"].reg.data
    /\ sessions["s1"].reg.data["password_hash"] = generate_password_hash(GoodPassword)

---------------------------------------------------------------------------
(* Claims about rows of deleted users, checked under SpecCascade *)

UserIds == {u.id : u \in users}

\* C24: every Follow, Message, Notification and PasswordResetToken row
\* references only users that exist; after delete_account no row of these
\* tables carries the deleted user's id.
C24_RowsReferenceExistingUsers ==
    /\ \A f \in follows : {f.follower_id, f.followed_id} \subseteq UserIds
    /\ \A m \in messages : {m.sender_id, m.receiver_id} \subseteq UserIds
    /\ \A n \in notifications : n.user_id \in UserIds
    /\ \A t \in tokens : t.user_id \in UserIds

---------------------------------------------------------------------------
(* Claims about what a commit is built from, checked under Spec *)

\* the step whose accepted "next" writes draft field k
StepOfField(k) == CHOOSE step \in 1..4 : k \in StepFields(step)

\* C25: whatever step values are submitted and in whatever order, a draft
\* field of a session is written only by an accepted "next" of that field's
\* step in that session, with values that pass the step's validation and, at
\* steps 1 and 2, the pre-check against the user rows of that moment; and a
\* user row is created only from a draft that holds all of username, display
\* name, email, password hash and date of birth, whose values it takes.
C25_CommitOnlyFromValidatedDraft ==
    [][ /\ \A s \in Sessions :
              \A k \in DOMAIN sessions'[s].reg.data \cap (RequiredFields \cup {"age"}) :
                  \/ /\ k \in DOMAIN sessions[s].reg.data
                     /\ sessions'[s].reg.data[k] = sessions[s].reg.data[k]
                  \/ /\ last'.op = "register" /\ last'.sess = s
                     /\ last'.outcome = "advanced"
                     /\ last'.step = StepOfField(k)
                     /\ StepFieldsValid(last'.step, sessions'[s].reg.data, users)
        /\ users' # users =>
              /\ last'.op = "register" /\ last'.outcome = "committed"
              /\ LET draft == sessions[last'.sess].reg.data
                 IN  /\ RequiredFields \subseteq DOMAIN draft
                     /\ \A step \in 1..4 : StepFieldsValid(step, draft, users)
                     /\ \E u \in users' :
                            /\ users' = users \cup {u}
                            /\ u.username = draft["username"]
                            /\ u.display_name = draft["display_name"]
                            /\ u.email = draft["email"]
                            /\ u.password_hash = draft["password_hash"]
                            /\ Strptime(draft["date_of_birth"]).ok
                            /\ _calculate_age(u.date_of_birth, date_today) >= 13
      ]_vars

\* a user was committed from a draft whose username and email had been sent
\* padded and in capitals and whose date of birth is 13 years before today
C25_Witness ==
    /\ last.op = "register" /\ last.outcome = "committed"
    /\ \E u \in users :
           /\ u.id = last.uid
           /\ u.display_name = <<"B","o">>
           /\ u.email = BobMail
           /\ u.date_of_birth = [y |-> 2013, m |-> 11, d |-> 2]

\* C26: every date_of_birth value that step 4 accepts and stores in the
\* draft is parsed by the step-5 commit, so a draft written by a successful
\* step 4 never triggers the step-5 rewind to step 4; this includes values
\* sent with whitespace around them.
C26_AcceptedDobParsesAtCommit ==
    /\ \A s \in Sessions :
           "date_of_birth" \in DOMAIN DraftOf(s) =>
               Strptime(DraftOf(s)["date_of_birth"]).ok
    /\ ~(last.op = "register" /\ last.outcome = "rewind")

---------------------------------------------------------------------------
(* Claims about what a reset leaves alone, checked under SpecFrame *)

\* the step is a successful reset with the raw token of record r
ResetUses(r) ==
    /\ last'.op = "reset_password" /\ last'.outcome = "updated"
    /\ r.token_hash = hash_token(last'.view.token)

\* C27: a successful password reset sets used_at on exactly the record of
\* the submitted raw token and changes no other record; issuing a token,
\* resetting with one token or changing the password through change-password
\* leaves every other unused, unexpired token of the user valid; and a reset
\* POST that fails form validation leaves the token unused and the password
\* unchanged.
C27_ResetMarksOnlyMatchedToken ==
    [][ now' = now =>
          /\ \A r \in tokens :
                 IF ResetUses(r) /\ is_valid(r, now)
                 THEN /\ [r EXCEPT !.used_at = now] \in tokens'
                      /\ r \notin tokens'
                 ELSE /\ r \in tokens'
                      /\ (r.used_at = NullTime /\ now <= r.expires_at)
                             => is_valid(r, now')
          /\ Cardinality(tokens') = Cardinality(tokens)
                 + (IF last'.op = "forgot_password" /\ tokens' # tokens THEN 1 ELSE 0)
          /\ (last'.op = "reset_password" /\ last'.outcome = "form")
                 => (tokens' = tokens /\ users' = users)
          /\ last'.op = "change_password" => tokens' = tokens
      ]_vars

\* ann's password was reset with one link while another link of hers, still
\* unused and in time, stayed valid
C27_Witness ==
    /\ last.op = "reset_password" /\ last.outcome = "updated"
    /\ \E used, other \in tokens :
           /\ used.token_hash = hash_token(last.view.token)
           /\ used.used_at = now
           /\ other.user_id = used.user_id
           /\ other # used
           /\ is_valid(other, now)

===========================================================================
